---- MODULE Spec2Model ----
(***************************************************************************)
(* SorobanService (soroban.service.ts): one contract invocation as a state *)
(* machine whose steps are the await points of invokeContract, against a   *)
(* ledger RPC endpoint whose answers, failures, latencies and silences are *)
(* chosen nondeterministically.  Time is in milliseconds.                  *)
(***************************************************************************)
EXTENDS Integers, Sequences, FiniteSets, TLC

VARIABLES
  pc,            \* await point of the invocation: idle, getAccount, simulate,
                 \* prepare, send, poll, sleep, events, done; of estimateFees:
                 \* idle, feeSimulate, feeStats, done
  req,           \* arguments of invokeContract (contractId, method, options)
  inflight,      \* what the endpoint does with the remote call being awaited
  now,           \* Date.now()
  deadline,      \* waitForTransaction: deadline
  attempt,       \* waitForTransaction: attempt
  delayMs,       \* waitForTransaction: delayMs of the sleep in progress
  transaction,   \* the transaction built, prepared and signed
  simulation,    \* simulateTransaction: the endpoint's simulation answer
  sendResponse,  \* answer of sendTransaction
  confirmed,     \* answer on which waitForTransaction returned
  outcome,       \* what invokeContract returned or threw
  response,      \* waitForTransaction: the last answer to its status query
  log,           \* remote calls received by the endpoint, in order
  results,       \* how each awaited call settled: "resolved" or "rejected"
  sleeps,        \* delays slept by waitForTransaction, in order
  feeStats,      \* estimateFees: the answer it awaited for getFeeStats
  timers,        \* withTimeout: number of timeout timers that are armed
  cur,           \* concurrent invocations: the one that is running (1 or 2)
  peer,          \* concurrent invocations: the locals of the suspended one
  input,         \* argument of a decoding function called on its own
  output,        \* what that function returned
  signals,       \* signalRepository: the stored signal of each id
  assets,        \* assetRepository: the stored rows, in order of insertion
  cache,         \* cacheManager: the entry stored under each key
  clock,         \* the time that new Date() gives
  tasks,         \* handlers of the signal and asset services that are running
  history        \* the calls of these handlers that have ended, in order

vars == <<pc, req, inflight, now, deadline, attempt, delayMs, transaction,
          simulation, sendResponse, confirmed, outcome, response, log,
          results, sleeps, feeStats, timers, cur, peer, input, output,
          signals, assets, cache, clock, tasks, history>>

\* what the Soroban service never touches: repositories, cache, their handlers
stores == <<signals, assets, cache, clock, tasks, history>>

\* what one invocation or one estimate never touches
aside == <<cur, peer, input, output, stores>>

(***************************************************************************)
(* Bounds of the model.                                                    *)
(***************************************************************************)
\* stellarConfig.apiTimeout: the configured default budget of a remote call
apiTimeout == 22000
\* a caller-supplied options.timeoutMs
CallerTimeoutMs == 5000
\* latency of an endpoint that does not answer at once
LatencyMs == 300

(***************************************************************************)
(* Program constants.                                                      *)
(***************************************************************************)
BASE_FEE == 100
TxTimeoutSeconds == 30
PollBaseDelayMs == 2000
PollMaxDelayMs == 8000

(***************************************************************************)
(* Optional values: undefined is None, a present value v is Some(v).       *)
(***************************************************************************)
None == <<>>
Some(v) == <<v>>

\* JavaScript truthiness of an optional string and of an optional number
TruthyStr(o) == o # None /\ o # Some("")
TruthyNum(o) == o # None /\ o # Some(0)

Min(a, b) == IF a < b THEN a ELSE b

(***************************************************************************)
(* Errors.  A message is a template with its two interpolated values.      *)
(***************************************************************************)
Msg(text, arg, n) == [text |-> text, arg |-> arg, n |-> n]

MsgIdRequired == Msg("Contract ID and method are required", "", 0)
MsgMissingSecret == Msg("Missing source secret for contract invocation", "", 0)
MsgRejected == Msg("Soroban transaction rejected", "", 0)
MsgNoHash == Msg("Soroban transaction did not return a hash", "", 0)
MsgSimulationFailed(diag) == Msg("Simulation failed: ${error}", diag, 0)
MsgPollTimedOut == Msg("Timed out waiting for Soroban transaction", "", 0)
MsgTimedOut(label, timeout) ==
  Msg("Soroban ${label} timed out after ${timeout}ms", label, timeout)
MsgUnknown == Msg("Unknown Soroban error", "", 0)
MsgInvalidParameter == Msg("Invalid contract parameter", "", 0)

\* new SorobanException(message, contractId, method)
SorobanException(message, contractId, method) ==
  [class |-> "SorobanException", message |-> message,
   contractId |-> contractId, method |-> method]

\* an Error that is not a SorobanException
PlainError(message) ==
  [class |-> "Error", message |-> message, contractId |-> None, method |-> None]

\* a thrown value that is not an Error at all
ThrownValue ==
  [class |-> "Value", message |-> Msg("", "", 0), contractId |-> None,
   method |-> None]

(***************************************************************************)
(* The endpoint.                                                           *)
(***************************************************************************)
Latencies == {0, LatencyMs}

NetErrors == {PlainError(Msg("socket hang up", "", 0)), ThrownValue}

NoCall == [kind |-> "none", value |-> None, latency |-> 0]

\* what the endpoint may do with a call whose possible answers are `answers`:
\* answer at once or late, fail, or never settle (a failure that comes later
\* than the timer is the same as no answer)
Behaviours(answers) ==
  [kind : {"resolve"}, value : answers, latency : Latencies]
    \cup [kind : {"reject"}, value : NetErrors, latency : {0}]
    \cup {[kind |-> "never", value |-> None, latency |-> 0]}

AccountAnswers(address) == {[accountId |-> address, sequence |-> "7"]}

SimulationAnswers ==
  {[error |-> None, retval |-> Some([scv |-> "scvU32", native |-> 42])],
   [error |-> None, retval |-> None],
   [error |-> Some("HostError: contract trapped"), retval |-> None]}

SendAnswers == [status : {"PENDING", "ERROR"}, hash : {None, Some(""), Some("H1")}]

TxAnswer(status, fee, errXdr, resXdr, events) ==
  [status |-> status, feeCharged |-> fee, errorResultXdr |-> errXdr,
   resultXdr |-> resXdr, events |-> events]

\* a JS string where an encoded value or a list may stand instead
Text(s) == [text |-> s]

\* a JS array of values
Array(values) == [array |-> values]

\* a raw event: the fields that parseEvents reads, each of them optional
RawEventOf(type, contractId, contract_id, topic, topics, data, value) ==
  [type |-> type, contractId |-> contractId, contract_id |-> contract_id,
   topic |-> topic, topics |-> topics, data |-> data, value |-> value]

RawEvent ==
  RawEventOf(Some("contract"), Some("CA"), None,
             Some(Array(<<[scv |-> "scvU32", native |-> 9]>>)), None,
             Some([scv |-> "scvU32", native |-> 7]), None)

TxAnswers ==
  {TxAnswer(None, None, None, None, <<>>),
   TxAnswer(Some("PENDING"), None, None, None, <<>>),
   TxAnswer(Some("SUCCESS"), Some(100), None, Some("RES"), <<RawEvent>>),
   TxAnswer(Some("SUCCESS"), None, None, None, <<>>),
   TxAnswer(Some("FAILED"), Some(100), Some("ERR"), Some("RES"), <<RawEvent>>),
   TxAnswer(Some("FAILED"), None, None, Some("RES"), <<>>),
   TxAnswer(Some("FAILED"), None, None, None, <<>>),
   TxAnswer(Some("NOT_FOUND"), None, None, None, <<>>)}

\* getContractEvents reads only status and events of the answer to its query
EventsAnswers ==
  {TxAnswer(Some("SUCCESS"), Some(100), None, Some("RES"), <<RawEvent>>),
   TxAnswer(Some("SUCCESS"), None, None, None, <<>>),
   TxAnswer(Some("FAILED"), Some(100), Some("ERR"), Some("RES"), <<RawEvent>>),
   TxAnswer(Some("NOT_FOUND"), None, None, None, <<>>)}

(***************************************************************************)
(* Credentials: Keypair.fromSecret and Keypair.publicKey.                  *)
(***************************************************************************)
ValidSecrets == {"SA"}
PublicKey(secret) == "GA"

\* mutant: the secret is not decoded before the account is fetched
FromSecretThrows_Never(sourceSecret) == FALSE

\* Keypair.fromSecret throws on anything that is not an encoded secret seed
FromSecretThrows(sourceSecret) ==
  sourceSecret = None \/ sourceSecret[1] \notin ValidSecrets
MsgInvalidSecret == Msg("invalid encoded string", "", 0)

(***************************************************************************)
(* Arguments a caller may pass.                                            *)
(***************************************************************************)
ContractIds == {None, Some(""), Some("CA")}
Methods == {None, Some(""), Some("swap")}
Secrets == {None, Some(""), Some("not-a-secret"), Some("SA")}
SourceAccounts == {None, Some("GB")}
\* InvokeContractDto: timeoutMs is optional and, when given, at least 1
TimeoutChoices == {None, Some(1), Some(CallerTimeoutMs)}

\* An encoded ledger value (xdr.ScVal) is [scv |-> type, native |-> value].
\* A call argument is an xdr.ScVal, an object holding one under scVal, or a
\* native value, which nativeToScVal can encode or not.
NoScVal == [scv |-> "", native |-> 0]
EncodedParam(scVal) ==
  [kind |-> "ScVal", scVal |-> scVal, native |-> 0, encodable |-> TRUE]
WrappedParam(scVal) ==
  [kind |-> "object", scVal |-> scVal, native |-> 0, encodable |-> TRUE]
NativeParam(native, encodable) ==
  [kind |-> "native", scVal |-> NoScVal, native |-> native,
   encodable |-> encodable]

ParamChoices ==
  {<<NativeParam(100, TRUE), WrappedParam([scv |-> "scvI128", native |-> 5]),
     EncodedParam([scv |-> "scvU32", native |-> 9])>>,
   <<NativeParam(100, TRUE), NativeParam(1, FALSE)>>}

NoRequest ==
  [contractId |-> None, method |-> None, params |-> <<>>,
   sourceSecret |-> None, sourceAccount |-> None, timeoutMs |-> None]

NoOperation == [contractId |-> None, method |-> None, args |-> <<>>]

NoTransaction ==
  [source |-> "", sequence |-> "", fee |-> 0, timeout |-> 0,
   operation |-> NoOperation, prepared |-> FALSE, signatures |-> <<>>]

NoOutcome == [kind |-> "none"]

\* the ids that the signal repository gives to the rows it inserts, in order
SignalIds == {"s1"}

\* the pairs whose price is asked for; PRICE_CACHE_KEY_PREFIX + pair
Pairs ==
  {<<<<"X", "L", "M">>, <<"U", "S", "D", "C">>>>, <<<<"X", "L", "M">>>>}
CacheKey(pair) == <<"asset_price:", pair>>
CacheKeys == {CacheKey(pair) : pair \in Pairs}

\* handlers run concurrently on the event loop, two at a time
Tasks == {1, 2}
NoTask ==
  [op |-> "none", pc |-> "idle", n |-> 0, arg |-> [id |-> ""], loaded |-> None,
   awaited |-> None, out |-> [kind |-> "none"]]

\* the locals of a call that has not started
Idle ==
  [pc |-> "idle", req |-> NoRequest, inflight |-> NoCall, now |-> 0,
   deadline |-> 0, attempt |-> 0, delayMs |-> 0,
   transaction |-> NoTransaction, simulation |-> None, sendResponse |-> None,
   confirmed |-> None, outcome |-> NoOutcome, response |-> None, log |-> <<>>,
   results |-> <<>>, sleeps |-> <<>>, feeStats |-> None, timers |-> 0]

Init ==
  /\ pc = "idle"
  /\ req = NoRequest
  /\ inflight = NoCall
  /\ now = 0
  /\ deadline = 0
  /\ attempt = 0
  /\ delayMs = 0
  /\ transaction = NoTransaction
  /\ simulation = None
  /\ sendResponse = None
  /\ confirmed = None
  /\ outcome = NoOutcome
  /\ log = <<>>
  /\ results = <<>>
  /\ response = None
  /\ sleeps = <<>>
  /\ feeStats = None
  /\ timers = 0
  /\ cur = 1
  /\ peer = Idle
  /\ input = None
  /\ output = None
  /\ signals = [id \in SignalIds |-> None]
  /\ assets = <<>>
  /\ cache = [key \in CacheKeys |-> None]
  /\ clock = 0
  /\ tasks = [t \in Tasks |-> NoTask]
  /\ history = <<>>

(***************************************************************************)
(* Pure parts of the service.                                              *)
(***************************************************************************)
\* mutant: the caller's timeoutMs is not handed to the timer
Timeout_DefaultOnly(timeoutMs) == apiTimeout

\* withTimeout: const timeout = timeoutMs || this.stellarConfig.apiTimeout
Timeout(timeoutMs) == IF TruthyNum(timeoutMs) THEN timeoutMs[1] ELSE apiTimeout

\* mutant: the remote call is awaited without a timer
WithTimeout_NoTimer(b, label, timeoutMs) ==
  IF b.kind = "never"
  THEN [kind |-> "pending", value |-> None, elapsed |-> 0]
  ELSE [kind |-> IF b.kind = "resolve" THEN "resolved" ELSE "rejected",
        value |-> b.value,
        elapsed |-> b.latency]

\* withTimeout: Promise.race of the remote call `b` against a timer of
\* Timeout(timeoutMs) ms.  The result says how the race settles and after how
\* long; kind "pending" would mean that it never settles.
WithTimeout(b, label, timeoutMs) ==
  LET timeout == Timeout(timeoutMs) IN
  IF b.kind = "never" \/ b.latency >= timeout
  THEN [kind |-> "rejected",
        value |-> SorobanException(MsgTimedOut(label, timeout), None, None),
        elapsed |-> timeout]
  ELSE [kind |-> IF b.kind = "resolve" THEN "resolved" ELSE "rejected",
        value |-> b.value,
        elapsed |-> b.latency]

\* mutant: the finally block does not clear the timer
ClearTimeout_Omitted(n) == n

\* withTimeout: finally { clearTimeout(timeoutHandle) }, on n armed timers
ClearTimeout(n) == n - 1

\* withTimeout: the timers armed once the race of call `b` has settled: the
\* timer that fired is gone, and clearing it changes nothing
Raced(n, b, timeoutMs) ==
  IF b.kind = "never" \/ b.latency >= Timeout(timeoutMs) THEN n - 1
  ELSE ClearTimeout(n)

\* mutant: the test written with && instead of ||
MissingIdOrMethod_Both(contractId, method) ==
  ~TruthyStr(contractId) /\ ~TruthyStr(method)

\* invokeContract: if (!contractId || !method)
MissingIdOrMethod(contractId, method) ==
  ~TruthyStr(contractId) \/ ~TruthyStr(method)

\* mutant: the test for the source secret left out
MissingSecret_Unchecked(sourceSecret) == FALSE

\* invokeContract: if (!options.sourceSecret)
MissingSecret(sourceSecret) == ~TruthyStr(sourceSecret)

\* mutant: the caught error is rethrown as it is, whatever its class
Catch_Unwrapped(error, contractId, method) == error

\* invokeContract: the catch block
Catch(error, contractId, method) ==
  IF error.class = "SorobanException"
  THEN error
  ELSE SorobanException(
         IF error.class = "Error" THEN error.message ELSE MsgUnknown,
         contractId, method)

\* mutant: options.sourceAccount is ignored
SourceAccount_AlwaysDerived(sourceAccount, sourceSecret) ==
  PublicKey(sourceSecret[1])

\* invokeContract: options.sourceAccount || sourceKeypair.publicKey()
SourceAccount(sourceAccount, sourceSecret) ==
  IF TruthyStr(sourceAccount) THEN sourceAccount[1] ELSE PublicKey(sourceSecret[1])

\* nativeToScVal of a native number
NativeToScVal(native) == [scv |-> "scvU64", native |-> native]

\* what nativeToScVal throws on a value it cannot encode
NativeToScValError == PlainError(Msg("failed to convert native value", "", 0))

\* mutant: every value that nativeToScVal accepts is encoded by it, the
\* wrapper of a pre-encoded value as well
ToScVal_NativeFirst(param) ==
  IF param.kind = "ScVal"
  THEN [threw |-> FALSE, scVal |-> param.scVal, error |-> None]
  ELSE IF param.encodable
  THEN [threw |-> FALSE, scVal |-> NativeToScVal(param.native), error |-> None]
  ELSE [threw |-> TRUE, scVal |-> NoScVal,
        error |-> SorobanException(NativeToScValError.message, None, None)]

\* toScVal: the encoded value, or the SorobanException it throws
ToScVal(param) ==
  IF param.kind = "ScVal"
  THEN [threw |-> FALSE, scVal |-> param.scVal, error |-> None]
  ELSE IF param.kind = "object" /\ param.scVal # NoScVal
  THEN [threw |-> FALSE, scVal |-> param.scVal, error |-> None]
  ELSE IF param.encodable
  THEN [threw |-> FALSE, scVal |-> NativeToScVal(param.native), error |-> None]
  ELSE [threw |-> TRUE, scVal |-> NoScVal,
        error |-> SorobanException(
                    IF NativeToScValError.class = "Error"
                    THEN NativeToScValError.message
                    ELSE MsgInvalidParameter,
                    None, None)]

\* buildContractOperation: contract.call(method, ...scVals), unless a
\* parameter cannot be encoded
BuildContractOperation(contractId, method, params) ==
  LET scVals == [i \in 1..Len(params) |-> ToScVal(params[i])] IN
  IF \E i \in 1..Len(params) : scVals[i].threw
  THEN [threw |-> TRUE,
        error |-> scVals[CHOOSE i \in 1..Len(params) :
                          /\ scVals[i].threw
                          /\ \A j \in 1..(i - 1) : ~scVals[j].threw].error,
        operation |-> NoOperation]
  ELSE [threw |-> FALSE,
        error |-> None,
        operation |-> [contractId |-> contractId, method |-> method,
                       args |-> [i \in 1..Len(params) |-> scVals[i].scVal]]]

\* invokeContract: new TransactionBuilder(account, ...).addOperation(...)
\*   .setTimeout(30).build()
BuildTransaction(account, operation) ==
  [source |-> account.accountId, sequence |-> account.sequence,
   fee |-> BASE_FEE, timeout |-> TxTimeoutSeconds, operation |-> operation,
   prepared |-> FALSE, signatures |-> <<>>]

\* server.prepareTransaction: the transaction with the simulated footprint
Prepared(tx) == [tx EXCEPT !.prepared = TRUE]

\* mutant: the prepared transaction is sent without a signature
Sign_Omitted(tx, sourceSecret) == tx

\* invokeContract: prepared.sign(sourceKeypair)
Sign(tx, sourceSecret) ==
  [tx EXCEPT !.signatures = Append(@, PublicKey(sourceSecret[1]))]

\* mutant: a simulation error is not recognised
IsSimulationError_Never(sim) == FALSE

\* SorobanRpc.Api.isSimulationError
IsSimulationError(sim) == sim.error # None

\* mutant: the ERROR status of a submission is not tested
IsRejected_Never(sent) == FALSE

\* invokeContract: if (sendResponse.status === 'ERROR')
IsRejected(sent) == sent.status = "ERROR"

\* mutant: only an undefined hash counts as missing, an empty one does not
MissingHash_UndefinedOnly(sent) == sent.hash = None

\* invokeContract: if (!sendResponse.hash)
MissingHash(sent) == ~TruthyStr(sent.hash)

\* mutant: the budget is taken for the deadline, without the clock
Deadline_NoClock(t, timeoutMs) ==
  IF TruthyNum(timeoutMs) THEN timeoutMs[1] ELSE apiTimeout

\* waitForTransaction: Date.now() + (timeoutMs || this.stellarConfig.apiTimeout)
Deadline(t, timeoutMs) ==
  t + (IF TruthyNum(timeoutMs) THEN timeoutMs[1] ELSE apiTimeout)

\* waitForTransaction: while (Date.now() < deadline)
BeforeDeadline(t, d) == t < d

\* mutant: an answer without a status is taken for a final one
IsTerminal_NotPending(answer) == answer.status # Some("PENDING")

\* waitForTransaction: if (response.status && response.status !== 'PENDING')
IsTerminal(answer) ==
  TruthyStr(answer.status) /\ answer.status # Some("PENDING")

\* mutant: exponential instead of linear backoff
DelayMs_Exponential(att) == Min(PollBaseDelayMs * (2 ^ att), PollMaxDelayMs)

\* waitForTransaction: Math.min(2000 * (attempt + 1), 8000)
DelayMs(att) == Min(PollBaseDelayMs * (att + 1), PollMaxDelayMs)

\* Number.prototype.toString: the decimal digits of a natural number
RECURSIVE DecimalString(_)
DecimalString(n) ==
  IF n < 10 THEN <<n>> ELSE Append(DecimalString(n \div 10), n % 10)

\* the strings that are the base64 XDR of an encoded value (SCV_U32 of 42
\* and of 7); xdr.ScVal.fromXDR throws on every other string
Base64ScVals == {"AAAAAwAAACo=", "AAAAAwAAAAc="}

\* xdr.ScVal.fromXDR(text, 'base64')
FromXDR(text) ==
  [scv |-> "scvU32", native |-> IF text = "AAAAAwAAACo=" THEN 42 ELSE 7]

\* scValToNative
ScValToNative(scVal) == scVal.native

\* JS truthiness of an optional value that is an object or a string
TruthyValue(o) == o # None /\ o # Some(Text(""))

\* parseScVal; an encoded value is [scv |-> type, native |-> value], a string
\* is Text(s)
ParseScVal(value) ==
  IF ~TruthyValue(value) THEN None
  ELSE IF "scv" \in DOMAIN value[1] THEN Some(ScValToNative(value[1]))
  ELSE IF "text" \in DOMAIN value[1]
  THEN IF value[1].text \in Base64ScVals
       THEN Some(ScValToNative(FromXDR(value[1].text)))
       ELSE value
  ELSE value

\* mutant: topics default to an empty list
Topics_DefaultEmpty(event) ==
  LET raw == IF TruthyValue(event.topic) THEN event.topic ELSE event.topics IN
  IF raw # None /\ "array" \in DOMAIN raw[1]
  THEN Some([k \in 1..Len(raw[1].array) |-> ParseScVal(Some(raw[1].array[k]))])
  ELSE Some(<<>>)

\* parseEvents: Array.isArray(event.topic || event.topics) ? ...map : undefined
Topics(event) ==
  LET raw == IF TruthyValue(event.topic) THEN event.topic ELSE event.topics IN
  IF raw # None /\ "array" \in DOMAIN raw[1]
  THEN Some([k \in 1..Len(raw[1].array) |-> ParseScVal(Some(raw[1].array[k]))])
  ELSE None

\* parseEvents (getContractEvents: transaction.events || [])
ParseEvents(events) ==
  [i \in 1..Len(events) |->
     [type |-> IF TruthyStr(events[i].type) THEN events[i].type[1] ELSE "unknown",
      contractId |-> IF TruthyStr(events[i].contractId) THEN events[i].contractId
                     ELSE events[i].contract_id,
      topics |-> Topics(events[i]),
      data |-> ParseScVal(IF TruthyValue(events[i].data) THEN events[i].data
                          ELSE events[i].value)]]

\* getContractEvents, after its status query was answered with `tx`
ContractEvents(tx) ==
  IF tx.status # Some("SUCCESS") THEN <<>> ELSE ParseEvents(tx.events)

\* mutant: the status is not the last resort of the error
ContractResult_NoStatusFallback(sim, sent, conf, events) ==
  [success |-> conf.status = Some("SUCCESS"),
   hash |-> sent.hash,
   status |-> conf.status,
   result |-> IF sim.retval = None THEN None ELSE Some(sim.retval[1].native),
   events |-> events,
   feeCharged |-> IF conf.feeCharged = None THEN None
                  ELSE Some(DecimalString(conf.feeCharged[1])),
   error |-> IF conf.status = Some("SUCCESS") THEN None
             ELSE IF TruthyStr(conf.errorResultXdr) THEN conf.errorResultXdr
             ELSE conf.resultXdr]

\* mutant: the error of the result is filled in without the test of success
ContractResult_ErrorAlways(sim, sent, conf, events) ==
  [success |-> conf.status = Some("SUCCESS"),
   hash |-> sent.hash,
   status |-> conf.status,
   result |-> IF sim.retval = None THEN None ELSE Some(sim.retval[1].native),
   events |-> events,
   feeCharged |-> IF conf.feeCharged = None THEN None
                  ELSE Some(DecimalString(conf.feeCharged[1])),
   error |-> IF TruthyStr(conf.errorResultXdr) THEN conf.errorResultXdr
             ELSE IF TruthyStr(conf.resultXdr) THEN conf.resultXdr
             ELSE conf.status]

\* invokeContract: the ContractResult it returns
ContractResult(sim, sent, conf, events) ==
  LET success == conf.status = Some("SUCCESS") IN
  [success |-> success,
   hash |-> sent.hash,
   status |-> conf.status,
   result |-> ParseScVal(sim.retval),
   events |-> events,
   feeCharged |-> IF conf.feeCharged = None THEN None
                  ELSE Some(DecimalString(conf.feeCharged[1])),
   error |-> IF success THEN None
             ELSE IF TruthyStr(conf.errorResultXdr) THEN conf.errorResultXdr
             ELSE IF TruthyStr(conf.resultXdr) THEN conf.resultXdr
             ELSE conf.status]

(***************************************************************************)
(* Control: how a step of invokeContract ends.                             *)
(***************************************************************************)
\* the invocation throws `error` to its caller
Throw(error) ==
  /\ pc' = "done"
  /\ inflight' = NoCall
  /\ outcome' = [kind |-> "thrown", error |-> error]
  /\ log' = log

\* the invocation returns `result` to its caller
Return(result) ==
  /\ pc' = "done"
  /\ inflight' = NoCall
  /\ outcome' = [kind |-> "returned", result |-> result]
  /\ log' = log

\* function `by` issues the remote call `op` on the address or hash `arg` or on
\* the transaction `tx`, and awaits it at `await`
Call(op, by, arg, tx, await, answers) ==
  /\ pc' = await
  /\ \E b \in Behaviours(answers) : inflight' = b
  /\ log' = Append(log, [op |-> op, by |-> by, arg |-> arg, tx |-> tx])
  /\ outcome' = outcome

\* withTimeout: setTimeout for the call that the step has issued, if any
Armed(n) == n + (IF inflight' # NoCall THEN 1 ELSE 0)

\* waitForTransaction: the loop test at time t, then either the status query
\* or the timeout error (which invokeContract's catch rethrows)
PollLoop(t, d) ==
  IF BeforeDeadline(t, d)
  THEN Call("getTransaction", "waitForTransaction", sendResponse'[1].hash,
            NoTransaction, "poll", TxAnswers)
  ELSE Throw(Catch(SorobanException(MsgPollTimedOut, None, None),
                   req.contractId, req.method))

(***************************************************************************)
(* invokeContract, one action per await point.                             *)
(***************************************************************************)
\* entry up to the first await: preconditions, Keypair.fromSecret, getAccount
InvokeContract(contractId, method, params, sourceSecret, sourceAccount, timeoutMs) ==
  /\ pc = "idle"
  /\ req' = [contractId |-> contractId, method |-> method, params |-> params,
             sourceSecret |-> sourceSecret, sourceAccount |-> sourceAccount,
             timeoutMs |-> timeoutMs]
  /\ IF MissingIdOrMethod(contractId, method)
     THEN Throw(SorobanException(MsgIdRequired, contractId, method))
     ELSE IF MissingSecret(sourceSecret)
     THEN Throw(SorobanException(MsgMissingSecret, contractId, method))
     ELSE IF FromSecretThrows(sourceSecret)
     THEN Throw(Catch(PlainError(MsgInvalidSecret), contractId, method))
     ELSE Call("getAccount", "invokeContract",
               Some(SourceAccount(sourceAccount, sourceSecret)), NoTransaction,
               "getAccount", AccountAnswers(SourceAccount(sourceAccount, sourceSecret)))
  /\ timers' = Armed(timers)
  /\ UNCHANGED <<now, deadline, attempt, delayMs, transaction, simulation,
                 sendResponse, confirmed, response, results, sleeps, feeStats,
                 aside>>

\* getAccount settles; build the transaction; simulateTransaction is issued
GetAccountSettled ==
  /\ pc = "getAccount"
  /\ LET s == WithTimeout(inflight, "getAccount", req.timeoutMs) IN
     /\ s.kind # "pending"
     /\ now' = now + s.elapsed
     /\ results' = Append(results, s.kind)
     /\ IF s.kind = "rejected"
        THEN /\ Throw(Catch(s.value, req.contractId, req.method))
             /\ transaction' = transaction
        ELSE LET built == BuildContractOperation(req.contractId, req.method,
                                                 req.params) IN
             IF built.threw
             THEN /\ Throw(Catch(built.error, req.contractId, req.method))
                  /\ transaction' = transaction
             ELSE /\ transaction' = BuildTransaction(s.value, built.operation)
                  /\ Call("simulateTransaction", "simulateTransaction", None,
                          transaction', "simulate", SimulationAnswers)
  /\ timers' = Armed(Raced(timers, inflight, req.timeoutMs))
  /\ UNCHANGED <<req, deadline, attempt, delayMs, simulation, sendResponse,
                 confirmed, response, sleeps, feeStats,
                 aside>>

\* simulateTransaction settles; prepareTransaction is issued
SimulateSettled ==
  /\ pc = "simulate"
  /\ LET s == WithTimeout(inflight, "simulateTransaction", None) IN
     /\ s.kind # "pending"
     /\ now' = now + s.elapsed
     /\ results' = Append(results, s.kind)
     /\ IF s.kind = "rejected"
        THEN /\ Throw(Catch(s.value, req.contractId, req.method))
             /\ simulation' = simulation
        ELSE /\ simulation' = Some(s.value)
             /\ IF IsSimulationError(s.value)
                THEN Throw(Catch(SorobanException(
                                   MsgSimulationFailed(s.value.error[1]),
                                   None, None),
                                 req.contractId, req.method))
                ELSE Call("prepareTransaction", "invokeContract", None,
                          transaction, "prepare", {Prepared(transaction)})
  /\ timers' = Armed(Raced(timers, inflight, None))
  /\ UNCHANGED <<req, deadline, attempt, delayMs, transaction, sendResponse,
                 confirmed, response, sleeps, feeStats,
                 aside>>

\* prepareTransaction settles; sign; sendTransaction is issued
PrepareSettled ==
  /\ pc = "prepare"
  /\ LET s == WithTimeout(inflight, "prepareTransaction", req.timeoutMs) IN
     /\ s.kind # "pending"
     /\ now' = now + s.elapsed
     /\ results' = Append(results, s.kind)
     /\ IF s.kind = "rejected"
        THEN /\ Throw(Catch(s.value, req.contractId, req.method))
             /\ transaction' = transaction
        ELSE /\ transaction' = Sign(s.value, req.sourceSecret)
             /\ Call("sendTransaction", "invokeContract", None, transaction',
                     "send", SendAnswers)
  /\ timers' = Armed(Raced(timers, inflight, req.timeoutMs))
  /\ UNCHANGED <<req, deadline, attempt, delayMs, simulation, sendResponse,
                 confirmed, response, sleeps, feeStats,
                 aside>>

\* sendTransaction settles; waitForTransaction starts
SendSettled ==
  /\ pc = "send"
  /\ LET s == WithTimeout(inflight, "sendTransaction", req.timeoutMs) IN
     /\ s.kind # "pending"
     /\ now' = now + s.elapsed
     /\ results' = Append(results, s.kind)
     /\ IF s.kind = "rejected"
        THEN /\ Throw(Catch(s.value, req.contractId, req.method))
             /\ UNCHANGED <<sendResponse, deadline, attempt>>
        ELSE /\ sendResponse' = Some(s.value)
             /\ IF IsRejected(s.value)
                THEN /\ Throw(Catch(SorobanException(MsgRejected, req.contractId,
                                                     req.method),
                                    req.contractId, req.method))
                     /\ UNCHANGED <<deadline, attempt>>
                ELSE IF MissingHash(s.value)
                THEN /\ Throw(Catch(SorobanException(MsgNoHash, req.contractId,
                                                     req.method),
                                    req.contractId, req.method))
                     /\ UNCHANGED <<deadline, attempt>>
                ELSE /\ deadline' = Deadline(now', req.timeoutMs)
                     /\ attempt' = 0
                     /\ PollLoop(now', deadline')
  /\ timers' = Armed(Raced(timers, inflight, req.timeoutMs))
  /\ UNCHANGED <<req, delayMs, transaction, simulation, confirmed, response,
                 sleeps, feeStats,
                 aside>>

\* waitForTransaction: a status query settles; return, or sleep
PollSettled ==
  /\ pc = "poll"
  /\ LET s == WithTimeout(inflight, "getTransaction", req.timeoutMs) IN
     /\ s.kind # "pending"
     /\ now' = now + s.elapsed
     /\ results' = Append(results, s.kind)
     /\ IF s.kind = "rejected"
        THEN /\ Throw(Catch(s.value, req.contractId, req.method))
             /\ UNCHANGED <<response, confirmed, delayMs, sleeps>>
        ELSE IF IsTerminal(s.value)
        THEN /\ response' = Some(s.value)
             /\ confirmed' = response'
             /\ UNCHANGED <<delayMs, sleeps>>
             /\ IF ~TruthyStr(sendResponse[1].hash)
                THEN Return(ContractResult(simulation[1], sendResponse[1],
                                           s.value, <<>>))
                ELSE Call("getTransaction", "getContractEvents",
                          sendResponse[1].hash, NoTransaction, "events",
                          EventsAnswers)
        ELSE /\ response' = Some(s.value)
             /\ delayMs' = DelayMs(attempt)
             /\ sleeps' = Append(sleeps, delayMs')
             /\ pc' = "sleep"
             /\ inflight' = NoCall
             /\ UNCHANGED <<confirmed, log, outcome>>
  /\ timers' = Armed(Raced(timers, inflight, req.timeoutMs))
  /\ UNCHANGED <<req, deadline, attempt, transaction, simulation,
                 sendResponse, feeStats,
                 aside>>

\* waitForTransaction: the sleep ends; attempt += 1; the loop test
SleepDone ==
  /\ pc = "sleep"
  /\ now' = now + delayMs
  /\ attempt' = attempt + 1
  /\ sendResponse' = sendResponse
  /\ PollLoop(now', deadline)
  /\ timers' = Armed(timers)
  /\ UNCHANGED <<req, deadline, delayMs, transaction, simulation, confirmed,
                 response, results, sleeps, feeStats,
                 aside>>

\* getContractEvents: its status query settles; the ContractResult is returned
EventsSettled ==
  /\ pc = "events"
  /\ LET s == WithTimeout(inflight, "getTransaction", None) IN
     /\ s.kind # "pending"
     /\ now' = now + s.elapsed
     /\ results' = Append(results, s.kind)
     /\ IF s.kind = "rejected"
        THEN Throw(Catch(s.value, req.contractId, req.method))
        ELSE Return(ContractResult(simulation[1], sendResponse[1],
                                   confirmed[1], ContractEvents(s.value)))
  /\ timers' = Armed(Raced(timers, inflight, None))
  /\ UNCHANGED <<req, deadline, attempt, delayMs, transaction, simulation,
                 sendResponse, confirmed, response, sleeps, feeStats,
                 aside>>

Next ==
  \/ \E contractId \in ContractIds, method \in Methods,
        params \in ParamChoices, sourceSecret \in Secrets,
        sourceAccount \in SourceAccounts, timeoutMs \in TimeoutChoices :
       InvokeContract(contractId, method, params, sourceSecret, sourceAccount,
                      timeoutMs)
  \/ GetAccountSettled
  \/ SimulateSettled
  \/ PrepareSettled
  \/ SendSettled
  \/ PollSettled
  \/ SleepDone
  \/ EventsSettled

Spec == Init /\ [][Next]_vars

\* the event loop runs every continuation and every timer that is due
FairSpec == Spec /\ WF_vars(Next)

(***************************************************************************)
(* estimateFees.  A string of decimal digits ('120') is the sequence of    *)
(* its digits; a statistic or a bucket that an answer lacks is None.       *)
(***************************************************************************)
\* JS truthiness of an optional string of digits: '' is falsy, '0' is not
TruthyDigits(o) == o # None /\ o # Some(<<>>)

\* a bucket of fee statistics
Bucket(p95, max, mode, min) == [p95 |-> p95, max |-> max, mode |-> mode, min |-> min]

\* the buckets an answer may hold in one place, with leading digit d: none,
\* all four statistics, ever fewer of them, none of them, a p95 of '0'
BucketChoices(d) ==
  {None,
   Some(Bucket(Some(<<d, 9, 5>>), Some(<<d, 9, 9>>), Some(<<d, 5, 0>>), Some(<<d, 0, 1>>))),
   Some(Bucket(None, Some(<<d, 9, 9>>), Some(<<d, 5, 0>>), Some(<<d, 0, 1>>))),
   Some(Bucket(None, None, Some(<<d, 5, 0>>), Some(<<d, 0, 1>>))),
   Some(Bucket(None, None, None, Some(<<d, 0, 1>>))),
   Some(Bucket(None, None, None, None)),
   Some(Bucket(Some(<<0>>), None, None, None))}

\* the answer {} (also Promise.resolve({}) when there is no getFeeStats)
EmptyStats == [sorobanInclusionFee |-> None, inclusionFee |-> None, feeCharged |-> None]

\* answers of getFeeStats: null, or an object with up to three buckets
FeeStatsAnswers ==
  {None} \cup
  {Some(stats) : stats \in [sorobanInclusionFee : BucketChoices(1),
                            inclusionFee : BucketChoices(2),
                            feeCharged : BucketChoices(3)]}

\* answers of simulateTransaction to estimateFees
FeeSimulationAnswers ==
  {[error |-> None, retval |-> None, minResourceFee |-> Some(<<5, 0, 0, 0>>)],
   [error |-> None, retval |-> None, minResourceFee |-> Some(<<0>>)],
   [error |-> None, retval |-> None, minResourceFee |-> None],
   [error |-> Some("HostError: contract trapped"), retval |-> None,
    minResourceFee |-> None]}

\* the operations a caller may ask an estimate for
Operations ==
  {[contractId |-> Some("CA"), method |-> Some("swap"), args |-> <<>>],
   [contractId |-> Some("CA"), method |-> Some("swap"),
    args |-> <<[scv |-> "scvU64", native |-> 5]>>]}

\* getSimulationAccount
SimulationAccount ==
  [accountId |-> "GAAAAAAAAAAAAAAAAAAAAAAAAAAAAAAAAAAAAAAAAAAAAAAAAAAAAWHF",
   sequence |-> "0"]

\* toBigInt: BigInt(String(value)) of a string of decimal digits
RECURSIVE ToBigInt(_)
ToBigInt(value) ==
  IF value = <<>> THEN 0
  ELSE 10 * ToBigInt(SubSeq(value, 1, Len(value) - 1)) + value[Len(value)]

\* estimateFees: simulation.minResourceFee || '0'
MinResourceFee(sim) ==
  IF TruthyDigits(sim.minResourceFee) THEN sim.minResourceFee[1] ELSE <<0>>

\* estimateFees: feeStats || {}
FeeStatsOrEmpty(answer) == IF answer = None THEN EmptyStats ELSE answer[1]

\* mutant: only the soroban-specific bucket is looked at
InclusionBucket_SorobanOnly(stats) == stats.sorobanInclusionFee

\* resolveInclusionFee: sorobanInclusionFee || inclusionFee || feeCharged
InclusionBucket(stats) ==
  IF stats.sorobanInclusionFee # None THEN stats.sorobanInclusionFee
  ELSE IF stats.inclusionFee # None THEN stats.inclusionFee
  ELSE stats.feeCharged

\* mutant: max is preferred to p95
FeeCandidate_MaxFirst(bucket) ==
  IF bucket = None THEN None
  ELSE IF TruthyDigits(bucket[1].max) THEN bucket[1].max
  ELSE IF TruthyDigits(bucket[1].p95) THEN bucket[1].p95
  ELSE IF TruthyDigits(bucket[1].mode) THEN bucket[1].mode
  ELSE bucket[1].min

\* resolveInclusionFee: inclusionFee?.p95 || ?.max || ?.mode || ?.min
FeeCandidate(bucket) ==
  IF bucket = None THEN None
  ELSE IF TruthyDigits(bucket[1].p95) THEN bucket[1].p95
  ELSE IF TruthyDigits(bucket[1].max) THEN bucket[1].max
  ELSE IF TruthyDigits(bucket[1].mode) THEN bucket[1].mode
  ELSE bucket[1].min

\* resolveInclusionFee
ResolveInclusionFee(stats) ==
  LET feeCandidate == FeeCandidate(InclusionBucket(stats)) IN
  IF feeCandidate # None THEN ToBigInt(feeCandidate[1])
  ELSE ToBigInt(DecimalString(BASE_FEE))

\* mutant: the resource fee is left out of the total
FeeEstimate_TotalIsInclusion(inclusionFee, resourceFee) ==
  [inclusionFee |-> DecimalString(inclusionFee),
   resourceFee |-> DecimalString(resourceFee),
   totalFee |-> DecimalString(inclusionFee)]

\* estimateFees: the FeeEstimate it returns (bigint.toString())
FeeEstimate(inclusionFee, resourceFee) ==
  [inclusionFee |-> DecimalString(inclusionFee),
   resourceFee |-> DecimalString(resourceFee),
   totalFee |-> DecimalString(inclusionFee + resourceFee)]

\* estimateFees up to its first await: the transaction on the simulation
\* account; simulateTransaction is issued
EstimateFees(operation) ==
  /\ pc = "idle"
  /\ transaction' = BuildTransaction(SimulationAccount, operation)
  /\ Call("simulateTransaction", "simulateTransaction", None, transaction',
          "feeSimulate", FeeSimulationAnswers)
  /\ timers' = Armed(timers)
  /\ UNCHANGED <<req, now, deadline, attempt, delayMs, simulation, sendResponse,
                 confirmed, response, results, sleeps, feeStats,
                 aside>>

\* simulateTransaction settles; getFeeStats is issued when the server has it
\* (hasGetFeeStats), else Promise.resolve({}) is awaited
FeeSimulateSettled(hasGetFeeStats) ==
  /\ pc = "feeSimulate"
  /\ LET s == WithTimeout(inflight, "simulateTransaction", None) IN
     /\ s.kind # "pending"
     /\ now' = now + s.elapsed
     /\ results' = Append(results, s.kind)
     /\ IF s.kind = "rejected"
        THEN /\ Throw(s.value)
             /\ simulation' = simulation
        ELSE /\ simulation' = Some(s.value)
             /\ IF IsSimulationError(s.value)
                THEN Throw(SorobanException(
                             MsgSimulationFailed(s.value.error[1]), None, None))
                ELSE IF hasGetFeeStats
                THEN Call("getFeeStats", "estimateFees", None, NoTransaction,
                          "feeStats", FeeStatsAnswers)
                ELSE /\ pc' = "feeStats"
                     /\ inflight' = [kind |-> "resolve",
                                     value |-> Some(EmptyStats), latency |-> 0]
                     /\ UNCHANGED <<log, outcome>>
  /\ timers' = Armed(Raced(timers, inflight, None))
  /\ UNCHANGED <<req, deadline, attempt, delayMs, transaction, sendResponse,
                 confirmed, response, sleeps, feeStats,
                 aside>>

\* the fee statistics settle; the FeeEstimate is returned
FeeStatsSettled ==
  /\ pc = "feeStats"
  /\ LET s == WithTimeout(inflight, "getFeeStats", None) IN
     /\ s.kind # "pending"
     /\ now' = now + s.elapsed
     /\ results' = IF Len(log) > Len(results) THEN Append(results, s.kind)
                   ELSE results
     /\ IF s.kind = "rejected"
        THEN /\ Throw(s.value)
             /\ feeStats' = feeStats
        ELSE /\ feeStats' = Some(s.value)
             /\ Return(FeeEstimate(
                         ResolveInclusionFee(FeeStatsOrEmpty(s.value)),
                         ToBigInt(MinResourceFee(simulation[1]))))
  /\ timers' = Armed(Raced(timers, inflight, None))
  /\ UNCHANGED <<req, deadline, attempt, delayMs, transaction, simulation,
                 sendResponse, confirmed, response, sleeps,
                 aside>>

FeeNext ==
  \/ \E operation \in Operations : EstimateFees(operation)
  \/ \E hasGetFeeStats \in BOOLEAN : FeeSimulateSettled(hasGetFeeStats)
  \/ FeeStatsSettled

\* one call of estimateFees
FeeSpec == Init /\ [][FeeNext]_vars

(***************************************************************************)
(* parseScVal and parseEvents, called on their own.                        *)
(***************************************************************************)
\* the variables of one invocation or estimate
locals ==
  <<pc, req, inflight, now, deadline, attempt, delayMs, transaction,
    simulation, sendResponse, confirmed, outcome, response, log, results,
    sleeps, feeStats, timers>>

\* values handed to parseScVal: nothing, an encoded value, strings that are
\* and are not the base64 of an encoded value, the empty string, an object
ScValInputs ==
  {None,
   Some([scv |-> "scvU32", native |-> 42]),
   Some(Text("AAAAAwAAACo=")),
   Some(Text("AAAAAwAAAAc=")),
   Some(Text("not base64!")),
   Some(Text("hello")),
   Some(Text("")),
   Some([object |-> 1])}

\* the raw events of the lists handed to parseEvents
RawEvents ==
  {RawEventOf(type, Some("CA"), None, topic, topics, data, None) :
     type \in {None, Some(""), Some("contract")},
     topic \in {None, Some(Array(<<>>)), Some(Text("x")), Some(Text("")),
                Some(Array(<<[scv |-> "scvU32", native |-> 9],
                             Text("AAAAAwAAAAc=")>>))},
     topics \in {None, Some(Array(<<[scv |-> "scvU32", native |-> 9]>>))},
     data \in {Some([scv |-> "scvU32", native |-> 7])}}

\* the longest list of raw events
MaxEvents == 2

EventLists == UNION {[1..n -> RawEvents] : n \in 0..MaxEvents}

\* parseScVal(value)
ParseScValCall(value) ==
  /\ input = None
  /\ input' = Some([fn |-> "parseScVal", arg |-> value])
  /\ output' = Some(ParseScVal(value))
  /\ UNCHANGED <<locals, cur, peer, stores>>

\* parseEvents(events)
ParseEventsCall(events) ==
  /\ input = None
  /\ input' = Some([fn |-> "parseEvents", arg |-> events])
  /\ output' = Some(ParseEvents(events))
  /\ UNCHANGED <<locals, cur, peer, stores>>

\* a function is called once, on any of its inputs
DecodeNext ==
  \/ input = None /\ \E value \in ScValInputs : ParseScValCall(value)
  \/ input = None /\ \E events \in EventLists : ParseEventsCall(events)

\* one call of a decoding function
DecodeSpec == Init /\ [][DecodeNext]_vars

(***************************************************************************)
(* Two invocations on one service instance.  The event loop runs one       *)
(* continuation at a time: the variables above are the locals of the       *)
(* invocation that is running, `peer` holds those of the one suspended at  *)
(* its await, and Resume hands the processor over.  `now` is the clock as  *)
(* the invocation read it at its own last step.                            *)
(***************************************************************************)
\* the locals of the running invocation
Context ==
  [pc |-> pc, req |-> req, inflight |-> inflight, now |-> now,
   deadline |-> deadline, attempt |-> attempt, delayMs |-> delayMs,
   transaction |-> transaction, simulation |-> simulation,
   sendResponse |-> sendResponse, confirmed |-> confirmed,
   outcome |-> outcome, response |-> response, log |-> log,
   results |-> results, sleeps |-> sleeps, feeStats |-> feeStats,
   timers |-> timers]

\* mutant: deadline and attempt are kept in fields of the service
PollerLocals_OnInstance(own, running) ==
  [deadline |-> running.deadline, attempt |-> running.attempt]

\* waitForTransaction: `const deadline` and `let attempt` belong to the call:
\* an invocation that is resumed finds its `own`, whatever the `running` one
\* has made of its own in the meantime
PollerLocals(own, running) ==
  [deadline |-> own.deadline, attempt |-> own.attempt]

\* the other invocation is resumed at its await (or has yet to be called)
Resume ==
  /\ cur' = 3 - cur
  /\ peer' = Context
  /\ pc' = peer.pc
  /\ req' = peer.req
  /\ inflight' = peer.inflight
  /\ now' = peer.now
  /\ deadline' = PollerLocals(peer, Context).deadline
  /\ attempt' = PollerLocals(peer, Context).attempt
  /\ delayMs' = peer.delayMs
  /\ transaction' = peer.transaction
  /\ simulation' = peer.simulation
  /\ sendResponse' = peer.sendResponse
  /\ confirmed' = peer.confirmed
  /\ outcome' = peer.outcome
  /\ response' = peer.response
  /\ log' = peer.log
  /\ results' = peer.results
  /\ sleeps' = peer.sleeps
  /\ feeStats' = peer.feeStats
  /\ timers' = peer.timers
  /\ UNCHANGED <<input, output, stores>>

\* the endpoint of the two invocations answers at once or not at all
Calm == inflight = NoCall \/ (inflight.kind # "reject" /\ inflight.latency = 0)

\* the first invocation runs on the account of its secret with a long
\* timeoutMs, the second on the account GB with the shortest one
ConcInvoke ==
  InvokeContract(Some("CA"), Some("swap"), <<>>, Some("SA"),
                 IF cur = 1 THEN None ELSE Some("GB"),
                 IF cur = 1 THEN Some(CallerTimeoutMs) ELSE Some(1))

ConcNext ==
  \/ ConcInvoke /\ Calm'
  \/ GetAccountSettled /\ Calm'
  \/ SimulateSettled /\ Calm'
  \/ PrepareSettled /\ Calm'
  \/ SendSettled /\ Calm'
  \/ PollSettled /\ Calm'
  \/ SleepDone /\ Calm'
  \/ EventsSettled /\ Calm'
  \/ Resume

ConcSpec == Init /\ [][ConcNext]_vars

(***************************************************************************)
(* SignalPerformanceService (signal-performance.service.ts) and            *)
(* SignalValidationProcessor (signal-validation.processor.ts) on one       *)
(* signal repository.  A handler is one task; it gives the processor away  *)
(* at each await, so that the steps of two tasks interleave.  A price is   *)
(* a string, written as the sequence of its characters.                    *)
(***************************************************************************)
\* the variables of the Soroban service
soroban ==
  <<pc, req, inflight, now, deadline, attempt, delayMs, transaction,
    simulation, sendResponse, confirmed, outcome, response, log, results,
    sleeps, feeStats, timers, cur, peer, input, output>>

\* the calls that the tasks may make, taken together
MaxCalls == 3
\* the instants of the clock: a signal made at the first has expired at the
\* second
Instants == {0, 1}

DigitOf ==
  [c \in {"0", "1", "2", "3", "4", "5", "6", "7", "8", "9"} |->
     CASE c = "0" -> 0 [] c = "1" -> 1 [] c = "2" -> 2 [] c = "3" -> 3
       [] c = "4" -> 4 [] c = "5" -> 5 [] c = "6" -> 6 [] c = "7" -> 7
       [] c = "8" -> 8 [] c = "9" -> 9]

\* a JS number: NaN, or a value
NaN == [nan |-> TRUE, v |-> 0]
Num(v) == [nan |-> FALSE, v |-> v]

\* the comparisons of JS numbers: false as soon as one side is NaN
LessEq(a, b) == ~a.nan /\ ~b.nan /\ a.v <= b.v
GreaterEq(a, b) == ~a.nan /\ ~b.nan /\ a.v >= b.v

\* the longest prefix of str that consists of digits
RECURSIVE DigitsPrefix(_)
DigitsPrefix(str) ==
  IF str = <<>> \/ str[1] \notin DOMAIN DigitOf THEN <<>>
  ELSE <<str[1]>> \o DigitsPrefix(Tail(str))

\* the number that a sequence of digits writes
RECURSIVE DigitsNumber(_)
DigitsNumber(digits) ==
  IF digits = <<>> THEN 0
  ELSE 10 * DigitsNumber(SubSeq(digits, 1, Len(digits) - 1))
       + DigitOf[digits[Len(digits)]]

\* parseFloat of a string without fraction and exponent: an optional sign,
\* then the longest prefix of digits; NaN when there is no digit
ParseFloat(str) ==
  LET negative == str # <<>> /\ str[1] = "-"
      digits == DigitsPrefix(IF negative THEN Tail(str) ELSE str)
  IN IF digits = <<>> THEN NaN
     ELSE Num(IF negative THEN 0 - DigitsNumber(digits)
              ELSE DigitsNumber(digits))

\* JavaScript truthiness of an optional string written as a sequence
TruthyText(o) == o # None /\ o # Some(<<>>)

BadRequestException(message) ==
  [class |-> "BadRequestException", message |-> message]
NotFoundException(message) ==
  [class |-> "NotFoundException", message |-> message]

\* createSignal: the exception of its price checks, if any
CreateSignalRefusal(dto) ==
  LET entryPrice == ParseFloat(dto.entryPrice)
      targetPrice == ParseFloat(dto.targetPrice)
      stopLossPrice == ParseFloat(IF TruthyText(dto.stopLossPrice)
                                  THEN dto.stopLossPrice[1] ELSE <<"0">>)
  IN
  IF dto.type = "BUY"
  THEN IF LessEq(targetPrice, entryPrice)
       THEN Some(BadRequestException(
              "Target price must be higher than entry price for BUY signals"))
       ELSE IF GreaterEq(stopLossPrice, entryPrice)
       THEN Some(BadRequestException(
              "Stop loss price must be lower than entry price for BUY signals"))
       ELSE None
  ELSE IF GreaterEq(targetPrice, entryPrice)
       THEN Some(BadRequestException(
              "Target price must be lower than entry price for SELL signals"))
       ELSE IF LessEq(stopLossPrice, entryPrice)
       THEN Some(BadRequestException(
              "Stop loss price must be higher than entry price for SELL signals"))
       ELSE None

\* createSignal: the entity that signalRepository.create makes of the dto
NewSignal(dto, id) ==
  [id |-> id,
   type |-> dto.type,
   entryPrice |-> dto.entryPrice,
   targetPrice |-> dto.targetPrice,
   stopLossPrice |-> IF TruthyText(dto.stopLossPrice) THEN dto.stopLossPrice
                     ELSE None,
   expiresAt |-> IF dto.expiresAt # None THEN dto.expiresAt[1] ELSE clock,
   status |-> "ACTIVE",
   outcome |-> "PENDING",
   closePrice |-> None,
   closedAt |-> None,
   confidenceScore |-> None]

\* a request to createSignal
SignalDto(type, targetPrice, stopLossPrice, expiresAt) ==
  [type |-> type, entryPrice |-> <<"1", "0">>, targetPrice |-> targetPrice,
   stopLossPrice |-> stopLossPrice, expiresAt |-> expiresAt]

\* the requests that createSignal receives, all with the entry price '10':
\* prices in and out of order, a stop-loss omitted or empty, a target that is
\* no numeral, an expiry given or not
CreateSignalDtos ==
  {SignalDto("BUY", <<"1", "5">>, None, None),
   SignalDto("BUY", <<"1", "5">>, Some(<<>>), None),
   SignalDto("BUY", <<"1", "5">>, Some(<<"5">>), None),
   SignalDto("BUY", <<"1", "5">>, Some(<<"5">>), Some(1)),
   SignalDto("BUY", <<"1", "0">>, None, None),
   SignalDto("BUY", <<"5">>, Some(<<"5">>), None),
   SignalDto("BUY", <<"1", "5">>, Some(<<"1", "5">>), None),
   SignalDto("BUY", <<"a", "b", "c">>, None, None),
   SignalDto("SELL", <<"5">>, Some(<<"1", "5">>), None),
   SignalDto("SELL", <<"1", "5">>, Some(<<"1", "5">>), None),
   SignalDto("SELL", <<"5">>, Some(<<"5">>), None),
   SignalDto("SELL", <<"5">>, None, None)}

\* the ids that callers name: the stored ones and one that is not stored
NamedIds == SignalIds \cup {"s9"}

\* findOne: the stored signal of an id, or nothing
FindSignal(id) == IF id \in SignalIds THEN signals[id] ELSE None

\* a call of task t: its handler, the await it stands at, its argument, the
\* entity it loaded, the answer that its pending query will get and how it
\* ended
TaskCall(op, at, n, arg, loaded, out) ==
  [op |-> op, pc |-> at, n |-> n, arg |-> arg, loaded |-> loaded,
   awaited |-> None, out |-> out]

\* the task t awaits, at `at`, a query that will be answered by `answer`
Awaits(t, at, answer) ==
  tasks' = [tasks EXCEPT ![t].pc = at, ![t].awaited = Some(answer)]
Pending == [kind |-> "none"]
Returned(value) == [kind |-> "returned", value |-> value]
Thrown(error) == [kind |-> "thrown", error |-> error]

\* the task t is free to make one more call
Begins(t) ==
  /\ tasks[t].pc \in {"idle", "done"}
  /\ tasks[1].n + tasks[2].n < MaxCalls

\* the task t calls the handler op, which awaits at `at`
Starts(t, op, at, arg, loaded) ==
  tasks' = [tasks EXCEPT
              ![t] = TaskCall(op, at, tasks[t].n + 1, arg, loaded, Pending)]

\* the call of task t ends: its locals are gone, its caller holds `out`
Ends(t, out) ==
  tasks' = [tasks EXCEPT ![t].pc = "done", ![t].loaded = None,
                         ![t].awaited = None, ![t].out = out]

\* signalRepository.save(signal)
SaveSignal(by, signal) ==
  /\ signals' = [signals EXCEPT ![signal.id] = Some(signal)]
  /\ history' = Append(history, [op |-> "save", by |-> by, signal |-> signal])

\* createSignal(dto): the checks, then the save
CreateSignal(t, dto) ==
  /\ Begins(t)
  /\ \E id \in SignalIds : signals[id] = None
  /\ LET refusal == CreateSignalRefusal(dto)
         id == CHOOSE i \in SignalIds : signals[i] = None
     IN
     IF refusal # None
     THEN /\ tasks' = [tasks EXCEPT
                         ![t] = TaskCall("createSignal", "done", tasks[t].n + 1,
                                         dto, None, Thrown(refusal[1]))]
          /\ UNCHANGED <<signals, history>>
     ELSE /\ tasks' = [tasks EXCEPT
                         ![t] = TaskCall("createSignal", "done", tasks[t].n + 1,
                                         dto, None,
                                         Returned(NewSignal(dto, id)))]
          /\ SaveSignal("createSignal", NewSignal(dto, id))
  /\ UNCHANGED <<soroban, assets, cache, clock>>

\* getSignal(id): findOne is issued; what it finds is read now
GetSignal(t, op, arg) ==
  /\ Begins(t)
  /\ Starts(t, op, "getSignal", arg, FindSignal(arg.id))
  /\ UNCHANGED <<soroban, signals, assets, cache, clock, history>>

\* closeSignal: signal.status !== SignalStatus.ACTIVE
NotActive(signal) == signal.status # "ACTIVE"

\* closeSignal: the entity with its four fields assigned
Closed(signal, closeOutcome, closePrice) ==
  [signal EXCEPT !.status = "CLOSED", !.outcome = closeOutcome,
                 !.closePrice = Some(closePrice), !.closedAt = Some(clock)]

\* closeSignal(id, outcome, closePrice): getSignal is awaited
CloseSignal(t, id, closeOutcome, closePrice) ==
  GetSignal(t, "closeSignal",
            [id |-> id, outcome |-> closeOutcome, closePrice |-> closePrice])

\* closeSignal: getSignal has settled; the status test and the save
CloseSignalLoaded(t) ==
  /\ tasks[t].op = "closeSignal"
  /\ tasks[t].pc = "getSignal"
  /\ LET call == tasks[t] IN
     IF call.loaded = None
     THEN /\ Ends(t, Thrown(NotFoundException("Signal not found")))
          /\ UNCHANGED <<signals, history>>
     ELSE IF NotActive(call.loaded[1])
     THEN /\ Ends(t, Thrown(BadRequestException("Signal is not active")))
          /\ UNCHANGED <<signals, history>>
     ELSE LET saved == Closed(call.loaded[1], call.arg.outcome,
                              call.arg.closePrice)
          IN /\ Ends(t, Returned(saved))
             /\ SaveSignal("closeSignal", saved)
  /\ UNCHANGED <<soroban, assets, cache, clock>>

\* what sdexPriceService answers: whether a price is available and, for
\* that price, what isTargetHit and isStopLossHit say
PriceAnswers == [available : BOOLEAN, targetHit : BOOLEAN, stopLossHit : BOOLEAN]

\* mutant: the stop-loss is looked at before the target
PriceOutcome_StopLossFirst(signal, price) ==
  IF ~price.available THEN [outcome |-> "PENDING", shouldClose |-> FALSE]
  ELSE IF signal.stopLossPrice # None /\ price.stopLossHit
  THEN [outcome |-> "STOP_LOSS_HIT", shouldClose |-> TRUE]
  ELSE IF price.targetHit
  THEN [outcome |-> "TARGET_HIT", shouldClose |-> TRUE]
  ELSE [outcome |-> "PENDING", shouldClose |-> FALSE]

\* checkSignalOutcome: what it decides once the price query has settled
PriceOutcome(signal, price) ==
  IF ~price.available THEN [outcome |-> "PENDING", shouldClose |-> FALSE]
  ELSE IF price.targetHit
  THEN [outcome |-> "TARGET_HIT", shouldClose |-> TRUE]
  ELSE IF TruthyText(signal.stopLossPrice) /\ price.stopLossHit
  THEN [outcome |-> "STOP_LOSS_HIT", shouldClose |-> TRUE]
  ELSE [outcome |-> "PENDING", shouldClose |-> FALSE]

\* checkSignalOutcome: new Date() > signal.expiresAt
Expired(signal) == clock > signal.expiresAt

\* checkSignalOutcome(signalId): getSignal is awaited
CheckSignalOutcome(t, id) == GetSignal(t, "checkSignalOutcome", [id |-> id])

\* checkSignalOutcome: getSignal has settled; status and expiry are tested
\* and, for a signal that is active and not expired, the price is asked
CheckSignalLoaded(t, price) ==
  /\ tasks[t].op = "checkSignalOutcome"
  /\ tasks[t].pc = "getSignal"
  /\ LET call == tasks[t] IN
     IF call.loaded = None
     THEN /\ Ends(t, Thrown(NotFoundException("Signal not found")))
          /\ history' = history
     ELSE IF NotActive(call.loaded[1])
     THEN /\ Ends(t, Returned([signal |-> call.loaded[1],
                               outcome |-> call.loaded[1].outcome,
                               shouldClose |-> FALSE]))
          /\ history' = history
     ELSE IF Expired(call.loaded[1])
     THEN /\ Ends(t, Returned([signal |-> call.loaded[1],
                               outcome |-> "EXPIRED", shouldClose |-> TRUE]))
          /\ history' = history
     ELSE /\ Awaits(t, "getPrice", price)
          /\ history' = Append(history, [op |-> "getPrice",
                                     by |-> "checkSignalOutcome"])
  /\ UNCHANGED <<soroban, signals, assets, cache, clock>>

\* checkSignalOutcome: the price query has settled
CheckSignalPriced(t) ==
  /\ tasks[t].op = "checkSignalOutcome"
  /\ tasks[t].pc = "getPrice"
  /\ LET decided == PriceOutcome(tasks[t].loaded[1], tasks[t].awaited[1]) IN
     Ends(t, Returned([signal |-> tasks[t].loaded[1],
                       outcome |-> decided.outcome,
                       shouldClose |-> decided.shouldClose]))
  /\ UNCHANGED <<soroban, signals, assets, cache, clock, history>>

\* what aiValidationService.validateSignal answers, unless it throws
ValidationError == [class |-> "Error", message |-> "validation unavailable"]
ValidationResults ==
  [threw : {FALSE}, score : {0 - 5, 80}, isSpam : BOOLEAN]
  \cup {[threw |-> TRUE, error |-> ValidationError]}

\* mutant: the score is stored as the validator gave it
Confidence_Raw(result) == result.score

\* handleValidation: the confidenceScore assigned in either branch
Confidence(result) ==
  IF result.score < 30 \/ result.isSpam
  THEN (IF result.score > 0 THEN result.score ELSE 0)
  ELSE result.score

\* handleValidation(job): findOneBy is awaited
HandleValidation(t, id) == GetSignal(t, "handleValidation", [id |-> id])

\* handleValidation: findOneBy has settled; without a signal the job ends,
\* else the validator is called
ValidationLoaded(t, result) ==
  /\ tasks[t].op = "handleValidation"
  /\ tasks[t].pc = "getSignal"
  /\ IF tasks[t].loaded = None
     THEN /\ Ends(t, Returned([signal |-> None]))
          /\ history' = history
     ELSE /\ Awaits(t, "validateSignal", result)
          /\ history' = Append(history, [op |-> "validateSignal",
                                     by |-> "handleValidation"])
  /\ UNCHANGED <<soroban, signals, assets, cache, clock>>

\* handleValidation: the validator has answered; the signal is saved
ValidationSettled(t) ==
  /\ tasks[t].op = "handleValidation"
  /\ tasks[t].pc = "validateSignal"
  /\ ~tasks[t].awaited[1].threw
  /\ LET saved == [tasks[t].loaded[1] EXCEPT
                     !.outcome = "PENDING",
                     !.confidenceScore = Some(Confidence(tasks[t].awaited[1]))]
     IN /\ Ends(t, Returned([signal |-> Some(saved)]))
        /\ SaveSignal("handleValidation", saved)
  /\ UNCHANGED <<soroban, assets, cache, clock>>

\* handleValidation: the validator has thrown; the catch saves and rethrows
ValidationFailed(t) ==
  /\ tasks[t].op = "handleValidation"
  /\ tasks[t].pc = "validateSignal"
  /\ tasks[t].awaited[1].threw
  /\ LET saved == [tasks[t].loaded[1] EXCEPT
                     !.outcome = "PENDING", !.confidenceScore = Some(0)]
     IN /\ Ends(t, Thrown(tasks[t].awaited[1].error))
        /\ SaveSignal("handleValidation", saved)
  /\ UNCHANGED <<soroban, assets, cache, clock>>

\* time passes
Tick ==
  /\ clock + 1 \in Instants
  /\ clock' = clock + 1
  /\ UNCHANGED <<soroban, signals, assets, cache, tasks, history>>

SignalNext ==
  \/ \E dto \in CreateSignalDtos : CreateSignal(1, dto)
  \/ \E t \in Tasks, id \in NamedIds :
       \/ CloseSignal(t, id, "TARGET_HIT", <<"1", "5">>)
       \/ CloseSignal(t, id, "STOP_LOSS_HIT", <<"5">>)
  \/ \E t \in Tasks : CloseSignalLoaded(t)
  \/ \E t \in Tasks, id \in NamedIds : CheckSignalOutcome(t, id)
  \/ \E t \in Tasks, price \in PriceAnswers : CheckSignalLoaded(t, price)
  \/ \E t \in Tasks : CheckSignalPriced(t)
  \/ \E t \in Tasks, id \in NamedIds : HandleValidation(t, id)
  \/ \E t \in Tasks, result \in ValidationResults : ValidationLoaded(t, result)
  \/ \E t \in Tasks : ValidationSettled(t)
  \/ \E t \in Tasks : ValidationFailed(t)
  \/ Tick

\* the handlers of the signal repository, two at a time
SignalSpec == Init /\ [][SignalNext]_vars

(***************************************************************************)
(* AssetsService (assets.service.ts): the asset repository and the price   *)
(* cache.  An asset code is the sequence of its characters; a pair         *)
(* 'BASE/COUNTER' is the sequence of the codes that split('/') gives.      *)
(***************************************************************************)
XLM == <<"X", "L", "M">>
USDC == <<"U", "S", "D", "C">>
AQUA == <<"A", "Q", "U", "A">>
yXLM == <<"y", "X", "L", "M">>

\* initializeCoreAssets: coreAssets
CoreAssets ==
  <<[code |-> XLM, issuer |-> None, type |-> "NATIVE"],
    [code |-> USDC, issuer |-> Some("GA5Z"), type |-> "ISSUED"],
    [code |-> AQUA, issuer |-> Some("GBNZ"), type |-> "ISSUED"],
    [code |-> yXLM, issuer |-> Some("GARD"), type |-> "ISSUED"]>>

\* the requests that createAsset receives: the issuer undefined, empty or
\* given; a code of 13 characters
CreateAssetDtos ==
  [code : {XLM, USDC, USDC \o USDC \o USDC \o <<"X">>},
   issuer : {None, Some(""), Some("GA5Z")}]

\* findOne({where: {code, issuer}}), a falsy issuer being sought as IsNull()
FindAsset(code, issuer) ==
  LET found == {i \in 1..Len(assets) :
                  /\ assets[i].code = code
                  /\ assets[i].issuer = (IF TruthyStr(issuer) THEN issuer
                                         ELSE None)}
  IN IF found = {} THEN None
     ELSE Some(assets[CHOOSE i \in found : \A j \in found : i <= j])

\* assetRepository.save(asset) of an entity without id: a row is inserted
SaveAsset(by, asset) ==
  /\ assets' = Append(assets, asset)
  /\ history' = Append(history, [op |-> "save", by |-> by, asset |-> asset])

\* initializeCoreAssets, called once, by the constructor: its first findOne
\* reaches the repository, at once or after queries of the first handlers
InitializeCoreAssets(t) ==
  /\ \A i \in 1..Len(history) : history[i].op # "initializeCoreAssets"
  /\ Begins(t)
  /\ Starts(t, "initializeCoreAssets", "findOne", [i |-> 1],
            FindAsset(CoreAssets[1].code, CoreAssets[1].issuer))
  /\ history' = Append(history, [op |-> "initializeCoreAssets",
                                 by |-> "constructor"])
  /\ UNCHANGED <<soroban, signals, assets, cache, clock>>

\* initializeCoreAssets: findOne has settled; the save when nothing was
\* found, then the findOne of the next core asset
CoreAssetFound(t) ==
  /\ tasks[t].op = "initializeCoreAssets"
  /\ tasks[t].pc = "findOne"
  /\ LET i == tasks[t].arg.i IN
     /\ IF tasks[t].loaded = None
        THEN SaveAsset("initializeCoreAssets", CoreAssets[i])
        ELSE UNCHANGED <<assets, history>>
     /\ IF i < Len(CoreAssets)
        THEN tasks' = [tasks EXCEPT
                         ![t].arg = [i |-> i + 1],
                         ![t].loaded = FindAsset(CoreAssets[i + 1].code,
                                                 CoreAssets[i + 1].issuer)]
        ELSE Ends(t, Returned([done |-> TRUE]))
  /\ UNCHANGED <<soroban, signals, cache, clock>>

\* createAsset: the exception of its checks after the lookup, if any
AssetRefusal(dto, existing) ==
  IF existing # None
  THEN Some(BadRequestException("Asset already exists"))
  ELSE IF dto.issuer = None /\ dto.code # XLM
  THEN Some(BadRequestException("Issuer is required for non-native assets"))
  ELSE None

\* createAsset: the entity that assetRepository.create makes of the dto
NewAsset(dto) ==
  [code |-> dto.code,
   issuer |-> IF TruthyStr(dto.issuer) THEN dto.issuer ELSE None,
   type |-> IF TruthyStr(dto.issuer) THEN "ISSUED" ELSE "NATIVE"]

\* createAsset(dto): the test of the length, then findOne is awaited
CreateAsset(t, dto) ==
  /\ Begins(t)
  /\ IF Len(dto.code) > 12
     THEN tasks' = [tasks EXCEPT
                      ![t] = TaskCall("createAsset", "done", tasks[t].n + 1,
                                      dto, None,
                                      Thrown(BadRequestException(
                                        "Asset code must be 12 characters or less")))]
     ELSE Starts(t, "createAsset", "findOne", dto,
                 FindAsset(dto.code, dto.issuer))
  /\ UNCHANGED <<soroban, signals, assets, cache, clock, history>>

\* createAsset: findOne has settled; the two checks and the save
CreateAssetFound(t) ==
  /\ tasks[t].op = "createAsset"
  /\ tasks[t].pc = "findOne"
  /\ LET refusal == AssetRefusal(tasks[t].arg, tasks[t].loaded) IN
     IF refusal # None
     THEN /\ Ends(t, Thrown(refusal[1]))
          /\ UNCHANGED <<assets, history>>
     ELSE /\ Ends(t, Returned(NewAsset(tasks[t].arg)))
          /\ SaveAsset("createAsset", NewAsset(tasks[t].arg))
  /\ UNCHANGED <<soroban, signals, cache, clock>>

\* what axios.get answers for an order book: it fails, or gives the asks
\* and the bids
HorizonAnswers ==
  {[failed |-> TRUE, asks |-> <<>>, bids |-> <<>>],
   [failed |-> FALSE, asks |-> <<>>, bids |-> <<4>>],
   [failed |-> FALSE, asks |-> <<6, 7>>, bids |-> <<4>>]}

\* fetchPriceFromHorizon: the price it makes of an order book, or null
BookPrice(pair, book) ==
  IF book.failed \/ book.asks = <<>> \/ book.bids = <<>> THEN None
  ELSE Some([pair |-> pair, bidPrice |-> book.bids[1],
             askPrice |-> book.asks[1],
             tradeCount24h |-> Len(book.asks) + Len(book.bids)])

\* fetchPriceFromHorizon: the pair has two codes and both are stored assets
Quotable(pair) ==
  /\ Len(pair) >= 2
  /\ pair[1] # <<>> /\ pair[2] # <<>>
  /\ \E i \in 1..Len(assets) : assets[i].code = pair[1]
  /\ \E i \in 1..Len(assets) : assets[i].code = pair[2]

\* mutant: the cache is not consulted
CachedPrice_Ignored(cached) == None

\* getAssetPrice: if (cached) return cached
CachedPrice(cached) == cached

\* getAssetPrice(pair): cacheManager.get is awaited
GetAssetPrice(t, pair) ==
  /\ Begins(t)
  /\ Starts(t, "getAssetPrice", "get", [pair |-> pair], cache[CacheKey(pair)])
  /\ UNCHANGED <<soroban, signals, assets, cache, clock, history>>

\* getAssetPrice: the cache has answered; a cached price is returned, else
\* fetchPriceFromHorizon looks the assets up and asks for the order book
AssetPriceLooked(t, book) ==
  /\ tasks[t].op = "getAssetPrice"
  /\ tasks[t].pc = "get"
  /\ LET pair == tasks[t].arg.pair IN
     IF CachedPrice(tasks[t].loaded) # None
     THEN /\ Ends(t, Returned(CachedPrice(tasks[t].loaded)))
          /\ history' = history
     ELSE IF ~Quotable(pair)
     THEN /\ Ends(t, Returned(None))
          /\ history' = Append(history, [op |-> "fetchPriceFromHorizon",
                                         by |-> "getAssetPrice", pair |-> pair,
                                         get |-> FALSE])
     ELSE /\ Awaits(t, "axios.get", book)
          /\ history' = Append(history, [op |-> "fetchPriceFromHorizon",
                                         by |-> "getAssetPrice", pair |-> pair,
                                         get |-> TRUE])
  /\ UNCHANGED <<soroban, signals, assets, cache, clock>>

\* getAssetPrice: axios.get has settled; a price is cached and returned
AssetPriceFetched(t) ==
  /\ tasks[t].op = "getAssetPrice"
  /\ tasks[t].pc = "axios.get"
  /\ LET pair == tasks[t].arg.pair
         price == BookPrice(pair, tasks[t].awaited[1])
     IN /\ cache' = IF price # None
                    THEN [cache EXCEPT ![CacheKey(pair)] = price]
                    ELSE cache
        /\ Ends(t, Returned(price))
  /\ UNCHANGED <<soroban, signals, assets, clock, history>>

\* clearPriceCache(pair): cacheManager.del
ClearPriceCache(t, pair) ==
  /\ Begins(t)
  /\ tasks' = [tasks EXCEPT
                 ![t] = TaskCall("clearPriceCache", "done", tasks[t].n + 1,
                                 [pair |-> pair], None, Returned(None))]
  /\ cache' = [cache EXCEPT ![CacheKey(pair)] = None]
  /\ UNCHANGED <<soroban, signals, assets, clock, history>>

\* an entry of the cache is PRICE_CACHE_TTL old and is dropped
CacheExpired(key) ==
  /\ cache[key] # None
  /\ cache' = [cache EXCEPT ![key] = None]
  /\ UNCHANGED <<soroban, signals, assets, clock, tasks, history>>

AssetNext ==
  \/ \E t \in Tasks : InitializeCoreAssets(t)
  \/ \E t \in Tasks : CoreAssetFound(t)
  \/ \E t \in Tasks, dto \in CreateAssetDtos : CreateAsset(t, dto)
  \/ \E t \in Tasks : CreateAssetFound(t)
  \/ \E t \in Tasks, pair \in Pairs : GetAssetPrice(t, pair)
  \/ \E t \in Tasks, book \in HorizonAnswers : AssetPriceLooked(t, book)
  \/ \E t \in Tasks : AssetPriceFetched(t)
  \/ \E t \in Tasks, pair \in Pairs : ClearPriceCache(t, pair)
  \/ \E key \in CacheKeys : CacheExpired(key)

\* the handlers of the asset repository and the price cache, two at a time
AssetSpec == Init /\ [][AssetNext]_vars

(***************************************************************************)
(* Observations used by the properties below.                              *)
(***************************************************************************)
\* the remote calls of operation `op` that the endpoint received
CallsOf(op) == {i \in 1..Len(log) : log[i].op = op}

\* the status queries issued by waitForTransaction
PollQueries ==
  {i \in 1..Len(log) :
     log[i].op = "getTransaction" /\ log[i].by = "waitForTransaction"}

Started == pc # "idle"
Threw(message) ==
  /\ pc = "done"
  /\ outcome.kind = "thrown"
  /\ outcome.error.class = "SorobanException"
  /\ outcome.error.message = message

Absent == {None, Some("")}

RECURSIVE SumSeq(_)
SumSeq(q) == IF q = <<>> THEN 0 ELSE q[1] + SumSeq(Tail(q))

\* the time at which waitForTransaction was entered
PollingSince ==
  deadline - (IF req.timeoutMs \in {None, Some(0)} THEN apiTimeout
              ELSE req.timeoutMs[1])

\* the order in which one invocation calls the endpoint
Pipeline ==
  <<"getAccount", "simulateTransaction", "prepareTransaction",
    "sendTransaction">>

(***************************************************************************)
(* C1: an invocation without options.sourceSecret throws the classified    *)
(* error for an invalid request (with the message 'Missing source secret   *)
(* for contract invocation' once contractId and method are given) and the  *)
(* endpoint receives no remote call at all.                                *)
(***************************************************************************)
C1_MissingSecretNoRemoteCall ==
  (Started /\ req.sourceSecret \in Absent) =>
    /\ Threw(MsgMissingSecret) \/ Threw(MsgIdRequired)
    /\ (req.contractId \notin Absent /\ req.method \notin Absent)
         => Threw(MsgMissingSecret)
    /\ log = <<>>

C1_Witness ==
  /\ req.sourceSecret = None
  /\ req.contractId = Some("CA")
  /\ req.method = Some("swap")
  /\ Threw(MsgMissingSecret)
  /\ log = <<>>

(***************************************************************************)
(* C2: an invocation whose contractId or method is empty or missing throws *)
(* 'Contract ID and method are required' at once, before any remote call,  *)
(* whatever the other arguments are.                                       *)
(***************************************************************************)
C2_MissingIdOrMethodFailsFirst ==
  (Started /\ (req.contractId \in Absent \/ req.method \in Absent)) =>
    /\ Threw(MsgIdRequired)
    /\ outcome.error.contractId = req.contractId
    /\ outcome.error.method = req.method
    /\ log = <<>>
    /\ now = 0

C2_Witness ==
  /\ req.contractId = Some("CA")
  /\ req.method = Some("")
  /\ req.sourceSecret = Some("SA")
  /\ req.timeoutMs = Some(1)
  /\ Threw(MsgIdRequired)

(***************************************************************************)
(* C3: when the simulation answers with a simulation error the invocation  *)
(* throws 'Simulation failed: <the remote diagnostic>' and neither         *)
(* prepareTransaction nor sendTransaction is called; every sendTransaction *)
(* call is preceded by a simulateTransaction call of the same transaction  *)
(* that was answered without error.                                        *)
(***************************************************************************)
C3_NoSubmissionWithoutSimulation ==
  /\ (simulation # None /\ simulation[1].error # None) =>
       /\ Threw(MsgSimulationFailed(simulation[1].error[1]))
       /\ CallsOf("prepareTransaction") = {}
       /\ CallsOf("sendTransaction") = {}
  /\ \A i \in CallsOf("sendTransaction") :
       /\ simulation # None
       /\ simulation[1].error = None
       /\ \E j \in CallsOf("simulateTransaction") :
            /\ j < i
            /\ results[j] = "resolved"
            /\ log[j].tx = [log[i].tx EXCEPT !.prepared = FALSE,
                                              !.signatures = <<>>]

C3_Witness ==
  /\ simulation # None
  /\ simulation[1].error = Some("HostError: contract trapped")
  /\ Threw(MsgSimulationFailed("HostError: contract trapped"))
  /\ Len(log) = 2

(***************************************************************************)
(* C4: one invocation calls getAccount, simulateTransaction,               *)
(* prepareTransaction, sendTransaction and then only getTransaction, in    *)
(* that order, none skipped or repeated; a call is issued only after the   *)
(* one before it resolved; the transaction handed to sendTransaction is    *)
(* the prepared one carrying exactly one signature, and it is never signed *)
(* before it is prepared; a call that fails ends the invocation with an    *)
(* error and no later call.                                                *)
(***************************************************************************)
C4_SequentialPipeline ==
  /\ \A i \in 1..Len(log) :
       /\ log[i].op = IF i <= Len(Pipeline) THEN Pipeline[i] ELSE "getTransaction"
       /\ i < Len(log) => (i <= Len(results) /\ results[i] = "resolved")
  /\ Len(results) <= Len(log)
  /\ Len(log) <= Len(results) + 1
  /\ (pc \notin {"idle", "done", "sleep"}) <=> (Len(log) = Len(results) + 1)
  /\ \A i \in 1..Len(results) :
       results[i] = "rejected" =>
         /\ i = Len(log)
         /\ pc = "done"
         /\ outcome.kind = "thrown"
  /\ \A i \in CallsOf("sendTransaction") :
       /\ log[i].tx.prepared
       /\ Len(log[i].tx.signatures) = 1
       /\ log[i].tx = transaction
  /\ Len(transaction.signatures) = (IF CallsOf("sendTransaction") = {} THEN 0 ELSE 1)
  /\ transaction.signatures # <<>> => transaction.prepared
  /\ (pc = "done") <=> (outcome.kind \in {"returned", "thrown"})
  /\ outcome.kind = "returned" =>
       /\ Len(log) >= Len(Pipeline) + 2
       /\ \A i \in 1..Len(results) : results[i] = "resolved"

C4_Witness ==
  /\ pc = "done"
  /\ outcome.kind = "returned"
  /\ [i \in 1..Len(log) |-> log[i].op] =
       Pipeline \o <<"getTransaction", "getTransaction", "getTransaction">>
  /\ Len(transaction.signatures) = 1

(***************************************************************************)
(* C5: when sendTransaction answers with status ERROR the invocation       *)
(* throws 'Soroban transaction rejected' and no getTransaction query is    *)
(* ever issued.                                                            *)
(***************************************************************************)
C5_RejectedSubmissionNotPolled ==
  (sendResponse # None /\ sendResponse[1].status = "ERROR") =>
    /\ Threw(MsgRejected)
    /\ CallsOf("getTransaction") = {}

C5_Witness ==
  /\ sendResponse # None
  /\ sendResponse[1].status = "ERROR"
  /\ sendResponse[1].hash = Some("H1")
  /\ Threw(MsgRejected)

(***************************************************************************)
(* C6: when sendTransaction answers with a status other than ERROR and no  *)
(* hash the invocation throws 'Soroban transaction did not return a hash'  *)
(* and no getTransaction query is issued; every status query of the poller *)
(* carries the non-empty hash that the submission returned.                *)
(***************************************************************************)
C6_NoHashNotPolled ==
  /\ (/\ sendResponse # None
      /\ sendResponse[1].status # "ERROR"
      /\ sendResponse[1].hash \in Absent) =>
       /\ Threw(MsgNoHash)
       /\ CallsOf("getTransaction") = {}
  /\ \A i \in PollQueries :
       /\ sendResponse # None
       /\ log[i].arg = sendResponse[1].hash
       /\ log[i].arg \notin Absent

C6_Witness ==
  /\ sendResponse # None
  /\ sendResponse[1].status = "PENDING"
  /\ sendResponse[1].hash = Some("")
  /\ Threw(MsgNoHash)

(***************************************************************************)
(* C7: under FairSpec every invocation that was started ends, whatever the *)
(* endpoint does (answers, fails, stays silent, answers Pending for ever), *)
(* with exactly one outcome, a returned ContractResult or a thrown error,  *)
(* which then never changes.                                               *)
(***************************************************************************)
C7_InvocationTerminates ==
  /\ Started ~> (pc = "done" /\ outcome.kind \in {"returned", "thrown"})
  /\ [][pc = "done" => UNCHANGED <<pc, outcome>>]_vars
  /\ [](pc # "done" => outcome = NoOutcome)

\* a silent endpoint after two Pending answers: the timer ends the invocation
C7_Witness ==
  /\ pc = "done"
  /\ Len(sleeps) = 2
  /\ results[Len(results)] = "rejected"
  /\ outcome.kind = "thrown"
  /\ outcome.error.message = MsgTimedOut("getTransaction", apiTimeout)

(***************************************************************************)
(* C8: with timeoutMs = 1 and an endpoint that answers every status query  *)
(* with Pending, the timeout error of the poller is raised less than       *)
(* 100 ms after the deadline, and the poller never starts or finishes a    *)
(* sleep after the deadline.                                               *)
(***************************************************************************)
C8_TimeoutWithinOvershoot ==
  (req.timeoutMs = Some(1) /\ PollQueries # {}) =>
    /\ Threw(MsgPollTimedOut) => now < deadline + 100
    /\ pc = "sleep" => now + delayMs < deadline + 100

(***************************************************************************)
(* C9: the k-th sleep of the poller (k from 1) lasts min(2000 * k, 8000)   *)
(* ms: 2000, 4000, 6000, 8000, 8000, ...; the poller has slept once per    *)
(* attempt, the time since polling began is at least the sum of the sleeps *)
(* finished, and an invocation whose third status query is the first one   *)
(* answered SUCCESS (its later fetch of the events being answered too)     *)
(* returns success = true after sleeps of 2000 ms and then 4000 ms.        *)
(***************************************************************************)
C9_LinearBackoff ==
  /\ \A k \in 1..Len(sleeps) :
       sleeps[k] = (IF 2000 * k < 8000 THEN 2000 * k ELSE 8000)
  /\ pc = "sleep" =>
       /\ delayMs = sleeps[Len(sleeps)]
       /\ Len(sleeps) = attempt + 1
       /\ now >= PollingSince + SumSeq(sleeps) - delayMs
  /\ pc = "poll" => Len(sleeps) = attempt
  /\ (PollQueries # {} /\ pc # "sleep") =>
       /\ now >= PollingSince + SumSeq(sleeps)
       /\ now <= PollingSince + SumSeq(sleeps) + apiTimeout * (Len(sleeps) + 2)
  /\ (/\ pc = "done"
      /\ confirmed # None
      /\ confirmed[1].status = Some("SUCCESS")
      /\ Cardinality(PollQueries) = 3
      /\ results[Len(results)] = "resolved") =>
       /\ outcome.kind = "returned"
       /\ outcome.result.success = TRUE
       /\ sleeps = <<2000, 4000>>

C9_Witness ==
  /\ pc = "done"
  /\ outcome.kind = "returned"
  /\ outcome.result.success = TRUE
  /\ Cardinality(PollQueries) = 3
  /\ sleeps = <<2000, 4000>>

(***************************************************************************)
(* C10: the poller sleeps (and, the deadline permitting, queries again)    *)
(* exactly when the last answer has no status or the status PENDING; on    *)
(* any other status it returns that answer at once, without a sleep and    *)
(* without a further status query of its own.                              *)
(***************************************************************************)
C10_SleepIffNotFinal ==
  LET pending == {None, Some(""), Some("PENDING")}
      answered == {i \in PollQueries : i <= Len(results) /\ results[i] = "resolved"}
  IN
  /\ pc = "sleep" => (response # None /\ response[1].status \in pending)
  /\ confirmed # None =>
       /\ confirmed = response
       /\ confirmed[1].status \notin pending
       /\ pc \in {"events", "done"}
       /\ Cardinality(PollQueries) = Len(sleeps) + 1
       /\ Cardinality(answered) = Len(sleeps) + 1
  /\ confirmed = None =>
       /\ Cardinality(answered) = Len(sleeps)
       /\ response # None => response[1].status \in pending
  /\ (response # None /\ response[1].status \in pending) =>
       /\ confirmed = None
       /\ outcome.kind # "returned"
  /\ (response # None /\ response[1].status \notin pending) => confirmed = response

\* an answer without any status is followed by a sleep
C10_Witness ==
  /\ pc = "sleep"
  /\ response # None
  /\ response[1].status = None
  /\ Len(sleeps) = 2

(***************************************************************************)
(* C11: the deadline of the poller is fixed once, when waitForTransaction  *)
(* starts, as the clock at that moment plus the caller's timeoutMs (the    *)
(* configured apiTimeout when none was given); no status query, sleep or   *)
(* later step of the invocation changes it.                                *)
(***************************************************************************)
C11_DeadlineFixedOnce ==
  [][/\ (pc = "send" /\ pc' = "poll") =>
          deadline' = now' + (IF req.timeoutMs = None THEN apiTimeout
                              ELSE req.timeoutMs[1])
     /\ ~(pc = "send" /\ pc' = "poll") => deadline' = deadline
    ]_vars

\* after a sleep the deadline is still the one of the start: less than the
\* caller's timeoutMs minus the sleep away
C11_Witness ==
  /\ pc = "poll"
  /\ req.timeoutMs = Some(CallerTimeoutMs)
  /\ Len(sleeps) = 1
  /\ now > 0
  /\ deadline <= now + CallerTimeoutMs - sleeps[1]

(***************************************************************************)
(* C12: every remote call is raced against a timer: getAccount,            *)
(* prepareTransaction, sendTransaction and the status queries of the       *)
(* poller against the caller's timeoutMs (apiTimeout when none was given), *)
(* simulateTransaction and the status query of getContractEvents against   *)
(* apiTimeout.  A call that has not answered when its timer fires fails    *)
(* with 'Soroban <operation> timed out after <budget>ms' after exactly     *)
(* that budget, so an awaited call never blocks the invocation.            *)
(***************************************************************************)
C12_Label ==
  [getAccount |-> "getAccount", simulate |-> "simulateTransaction",
   prepare |-> "prepareTransaction", send |-> "sendTransaction",
   poll |-> "getTransaction", events |-> "getTransaction"]

C12_Budget ==
  IF pc \in {"simulate", "events"} \/ req.timeoutMs = None THEN apiTimeout
  ELSE req.timeoutMs[1]

C12_EveryCallRacedAgainstTimer ==
  /\ [](pc \in DOMAIN C12_Label <=> inflight # NoCall)
  /\ [](inflight # NoCall => ENABLED <<Next>>_vars)
  /\ [][(/\ inflight # NoCall
         /\ inflight.kind = "never" \/ inflight.latency >= C12_Budget) =>
          /\ pc' = "done"
          /\ outcome'.kind = "thrown"
          /\ outcome'.error.class = "SorobanException"
          /\ outcome'.error.message = MsgTimedOut(C12_Label[pc], C12_Budget)
          /\ now' = now + C12_Budget
          /\ log' = log
       ]_vars
  /\ [][(/\ inflight # NoCall
         /\ inflight.kind # "never"
         /\ inflight.latency < C12_Budget) => now' = now + inflight.latency
       ]_vars

\* a prepareTransaction that the endpoint never answers
C12_Witness ==
  /\ pc = "done"
  /\ outcome.kind = "thrown"
  /\ outcome.error.message = MsgTimedOut("prepareTransaction", CallerTimeoutMs)
  /\ req.timeoutMs = Some(CallerTimeoutMs)
  /\ Len(log) = 3

(***************************************************************************)
(* C13: the timer of each remote call, simulateTransaction included, is    *)
(* armed with what is left of the caller's timeoutMs, so that the time an  *)
(* invocation has spent waiting for the endpoint never exceeds timeoutMs.  *)
(* (Stated for the time before the first sleep of the poller, which is     *)
(* spent in remote calls only.)                                            *)
(***************************************************************************)
C13_RemainingBudget ==
  (Started /\ req.timeoutMs # None /\ sleeps = <<>>) => now <= req.timeoutMs[1]

(***************************************************************************)
(* C14: every error that an invocation throws carries the contractId and   *)
(* the method of that invocation.                                          *)
(***************************************************************************)
C14_ErrorsCarryContext ==
  (pc = "done" /\ outcome.kind = "thrown") =>
    /\ outcome.error.class = "SorobanException"
    /\ outcome.error.contractId = req.contractId
    /\ outcome.error.method = req.method

\* the number that a string of decimal digits denotes
RECURSIVE DigitsValue(_)
DigitsValue(digits) ==
  IF digits = <<>> THEN 0
  ELSE 10 * DigitsValue(SubSeq(digits, 1, Len(digits) - 1)) + digits[Len(digits)]

(***************************************************************************)
(* C15: no failure inside an invocation is swallowed: an error of a remote *)
(* call or of Keypair.fromSecret that is not a SorobanException is thrown  *)
(* to the caller as a SorobanException with its message (or 'Unknown       *)
(* Soroban error') and the contractId and method of the invocation; a      *)
(* SorobanException raised by a step (simulation failure, timer) is thrown *)
(* as it was raised; and a ContractResult is returned only when every      *)
(* remote call resolved and no step raised an error.                       *)
(***************************************************************************)
C15_NoFailureSwallowed ==
  /\ [][(inflight # NoCall /\ inflight.kind = "reject") =>
          /\ pc' = "done"
          /\ outcome' =
               [kind |-> "thrown",
                error |-> [class |-> "SorobanException",
                           message |-> IF inflight.value.class = "Error"
                                       THEN inflight.value.message
                                       ELSE MsgUnknown,
                           contractId |-> req.contractId,
                           method |-> req.method]]
       ]_vars
  /\ [][(inflight # NoCall /\ inflight.kind = "never") =>
          /\ outcome'.kind = "thrown"
          /\ outcome'.error.message.text =
               "Soroban ${label} timed out after ${timeout}ms"
          /\ outcome'.error.contractId = None
          /\ outcome'.error.method = None
       ]_vars
  /\ [](\A i \in 1..Len(results) :
          results[i] = "rejected" => (pc = "done" /\ outcome.kind = "thrown"))
  /\ []((simulation # None /\ simulation[1].error # None) =>
          outcome = [kind |-> "thrown",
                     error |-> [class |-> "SorobanException",
                                message |-> MsgSimulationFailed(
                                              simulation[1].error[1]),
                                contractId |-> None, method |-> None]])
  /\ []((/\ Started
         /\ req.contractId \notin Absent
         /\ req.method \notin Absent
         /\ req.sourceSecret \notin Absent
         /\ req.sourceSecret[1] \notin ValidSecrets) =>
          outcome = [kind |-> "thrown",
                     error |-> [class |-> "SorobanException",
                                message |-> MsgInvalidSecret,
                                contractId |-> req.contractId,
                                method |-> req.method]])
  /\ [](outcome.kind = "returned" =>
          /\ \A i \in 1..Len(results) : results[i] = "resolved"
          /\ Len(results) = Len(log)
          /\ simulation # None /\ simulation[1].error = None
          /\ sendResponse # None /\ sendResponse[1].status # "ERROR"
          /\ confirmed # None)

\* a sendTransaction that fails on the network
C15_Witness ==
  /\ pc = "done"
  /\ Len(log) = 4
  /\ results[4] = "rejected"
  /\ outcome.kind = "thrown"
  /\ outcome.error.message = Msg("socket hang up", "", 0)
  /\ outcome.error.contractId = Some("CA")
  /\ outcome.error.method = Some("swap")

(***************************************************************************)
(* C16: a ContractResult returned for a transaction confirmed with status  *)
(* SUCCESS has success = true, no error, the hash of the submission, the   *)
(* decoded return value of the simulation as result and the decimal string *)
(* of the confirmed fee as feeCharged: a simulated 42 and a fee of 100     *)
(* give result 42 and feeCharged "100".                                    *)
(***************************************************************************)
C16_SuccessResult ==
  (/\ pc = "done"
   /\ outcome.kind = "returned"
   /\ confirmed[1].status = Some("SUCCESS")) =>
    LET r == outcome.result IN
    /\ r.success = TRUE
    /\ r.error = None
    /\ r.status = Some("SUCCESS")
    /\ r.hash = sendResponse[1].hash
    /\ r.result = (IF simulation[1].retval = None THEN None
                   ELSE Some(simulation[1].retval[1].native))
    /\ (confirmed[1].feeCharged = None) <=> (r.feeCharged = None)
    /\ r.feeCharged # None =>
         /\ r.feeCharged[1] # <<>>
         /\ \A k \in 1..Len(r.feeCharged[1]) : r.feeCharged[1][k] \in 0..9
         /\ DigitsValue(r.feeCharged[1]) = confirmed[1].feeCharged[1]
    /\ (/\ simulation[1].retval = Some([scv |-> "scvU32", native |-> 42])
        /\ confirmed[1].feeCharged = Some(100)) =>
         (r.result = Some(42) /\ r.feeCharged = Some(<<1, 0, 0>>))

C16_Witness ==
  /\ pc = "done"
  /\ outcome.kind = "returned"
  /\ confirmed[1].status = Some("SUCCESS")
  /\ outcome.result.success = TRUE
  /\ outcome.result.result = Some(42)
  /\ outcome.result.feeCharged = Some(<<1, 0, 0>>)
  /\ outcome.result.error = None

(***************************************************************************)
(* C17: once the poller has returned a final status other than SUCCESS the *)
(* invocation returns, and does not throw, a ContractResult with           *)
(* success = false whose error is errorResultXdr when present, else        *)
(* resultXdr when present, else the status.                                *)
(***************************************************************************)
C17_FailureResult ==
  (/\ pc = "done"
   /\ confirmed # None
   /\ confirmed[1].status # Some("SUCCESS")) =>
    /\ outcome.kind = "returned"
    /\ outcome.result.success = FALSE
    /\ outcome.result.error =
         (IF confirmed[1].errorResultXdr \notin Absent
          THEN confirmed[1].errorResultXdr
          ELSE IF confirmed[1].resultXdr \notin Absent
          THEN confirmed[1].resultXdr
          ELSE confirmed[1].status)

\* estimateFees returned a FeeEstimate
Estimated == pc = "done" /\ outcome.kind = "returned" /\ feeStats # None

\* the statistics that estimateFees received ({} for null)
ReceivedStats == IF feeStats[1] = None THEN EmptyStats ELSE feeStats[1][1]

\* a string of one or more decimal digits, i.e. a numeral that is not negative
IsNumeral(digits) ==
  digits # <<>> /\ \A k \in 1..Len(digits) : digits[k] \in 0..9

Least(S) == CHOOSE k \in S : \A m \in S : k <= m

C19_FeePrecedence ==
  Estimated =>
    LET stats == ReceivedStats
        buckets == <<stats.sorobanInclusionFee, stats.inclusionFee,
                     stats.feeCharged>>
        held == {k \in 1..3 : buckets[k] # None}
    IN
    held # {} =>
      LET b == buckets[Least(held)][1]
          statistics == <<b.p95, b.max, b.mode, b.min>>
          given == {j \in 1..4 : statistics[j] \notin {None, Some(<<>>)}}
      IN
      given # {} =>
        DigitsValue(outcome.result.inclusionFee) =
          DigitsValue(statistics[Least(given)][1])

\* the soroban bucket lacks p95: its max is used, not the p95 of inclusionFee
C19_Witness ==
  /\ Estimated
  /\ feeStats[1] # None
  /\ feeStats[1][1].sorobanInclusionFee # None
  /\ feeStats[1][1].sorobanInclusionFee[1].p95 = None
  /\ feeStats[1][1].inclusionFee # None
  /\ feeStats[1][1].inclusionFee[1].p95 = Some(<<2, 9, 5>>)
  /\ outcome.result.inclusionFee = <<1, 9, 9>>

(***************************************************************************)
(* C20: statistics without a sorobanInclusionFee bucket but with           *)
(* inclusionFee.p95 give that p95 as the inclusion fee; statistics that    *)
(* are entirely empty, and a server without getFeeStats (no getFeeStats    *)
(* call is made), give an estimate whose inclusion fee is BASE_FEE.        *)
(***************************************************************************)
C20_GenericBucketAndBaseFee ==
  /\ (/\ Estimated
      /\ ReceivedStats.sorobanInclusionFee = None
      /\ ReceivedStats.inclusionFee # None
      /\ ReceivedStats.inclusionFee[1].p95 \notin {None, Some(<<>>)}) =>
       DigitsValue(outcome.result.inclusionFee) =
         DigitsValue(ReceivedStats.inclusionFee[1].p95[1])
  /\ (Estimated /\ ReceivedStats = EmptyStats) =>
       DigitsValue(outcome.result.inclusionFee) = BASE_FEE
  /\ (/\ pc = "done"
      /\ simulation # None
      /\ simulation[1].error = None
      /\ CallsOf("getFeeStats") = {}) =>
       /\ Estimated
       /\ ReceivedStats = EmptyStats
       /\ outcome.result.inclusionFee = <<1, 0, 0>>

C20_Witness ==
  /\ Estimated
  /\ feeStats[1] # None
  /\ feeStats[1][1].sorobanInclusionFee = None
  /\ feeStats[1][1].inclusionFee # None
  /\ feeStats[1][1].inclusionFee[1].p95 = Some(<<2, 9, 5>>)
  /\ CallsOf("getFeeStats") # {}
  /\ outcome.result.inclusionFee = <<2, 9, 5>>

(***************************************************************************)
(* C21: estimateFees fails only when the simulation fails: once the        *)
(* simulation has answered without error, whatever becomes of the fee      *)
(* statistics (no getFeeStats on the server, an empty answer, a rejected   *)
(* or a timed-out getFeeStats call), an estimate is returned.              *)
(***************************************************************************)
C21_OnlySimulationFails ==
  (pc = "done" /\ simulation # None /\ simulation[1].error = None) =>
    outcome.kind = "returned"

(***************************************************************************)
(* C22: within one invocation getAccount, simulateTransaction,             *)
(* prepareTransaction and sendTransaction are each called at most once, no *)
(* call is issued after one that failed or timed out, and a getTransaction *)
(* query other than the first is issued only after an answer without       *)
(* status or with status PENDING.                                          *)
(***************************************************************************)
C22_NoRepeatedCalls ==
  /\ \A k \in 1..Len(Pipeline) : Cardinality(CallsOf(Pipeline[k])) <= 1
  /\ \A i \in 1..Len(results) : results[i] = "rejected" => i = Len(log)
  /\ (inflight # NoCall /\ Cardinality(CallsOf("getTransaction")) > 1) =>
       /\ response # None
       /\ response[1].status \in {None, Some(""), Some("PENDING")}

(***************************************************************************)
(* C24: the events of a returned ContractResult are decoded from the       *)
(* answer on which the poller returned, the one that status and feeCharged *)
(* of the result are taken from.                                           *)
(***************************************************************************)
C24_EventsOfConfirmedAnswer ==
  (pc = "done" /\ outcome.kind = "returned") =>
    /\ outcome.result.status = confirmed[1].status
    /\ outcome.result.events =
         (IF confirmed[1].status = Some("SUCCESS")
          THEN ParseEvents(confirmed[1].events) ELSE <<>>)

(***************************************************************************)
(* C25: in every ContractResult returned, success is true exactly when     *)
(* status is SUCCESS and error is undefined exactly when success is true;  *)
(* a failed result has a non-empty error.                                  *)
(***************************************************************************)
C25_SuccessStatusError ==
  (pc = "done" /\ outcome.kind = "returned") =>
    LET r == outcome.result IN
    /\ r.success \in BOOLEAN
    /\ r.success <=> (r.status = Some("SUCCESS"))
    /\ r.success <=> (r.error = None)
    /\ ~r.success => r.error \notin Absent

\* a FAILED answer without any error payload
C25_Witness ==
  /\ pc = "done"
  /\ outcome.kind = "returned"
  /\ confirmed[1].errorResultXdr = None
  /\ confirmed[1].resultXdr = None
  /\ outcome.result.success = FALSE
  /\ outcome.result.error = Some("FAILED")

(***************************************************************************)
(* C27: a sourceSecret that is present but is not an encoded secret seed   *)
(* ends the invocation, contractId and method being given, with a          *)
(* SorobanException that carries contractId and method, before any remote  *)
(* call, getAccount included.                                              *)
(***************************************************************************)
C27_MalformedSecretRejectedFirst ==
  (/\ Started
   /\ req.contractId \notin Absent
   /\ req.method \notin Absent
   /\ req.sourceSecret \notin Absent
   /\ req.sourceSecret[1] \notin ValidSecrets) =>
    /\ pc = "done"
    /\ outcome.kind = "thrown"
    /\ outcome.error.class = "SorobanException"
    /\ outcome.error.contractId = req.contractId
    /\ outcome.error.method = req.method
    /\ log = <<>>
    /\ now = 0
    /\ transaction = NoTransaction

C27_Witness ==
  /\ req.sourceSecret = Some("not-a-secret")
  /\ req.sourceAccount = Some("GB")
  /\ pc = "done"
  /\ outcome.kind = "thrown"
  /\ outcome.error.contractId = Some("CA")
  /\ log = <<>>

(***************************************************************************)
(* C28: the account fetched and built upon is options.sourceAccount when   *)
(* given and the public key of sourceSecret otherwise; every signature is  *)
(* made with the keypair of sourceSecret; every transaction is built with  *)
(* fee BASE_FEE and a time bound of 30 seconds, whatever the caller        *)
(* passes.                                                                 *)
(***************************************************************************)
C28_SourceAccountAndFixedFee ==
  LET account == IF req.sourceAccount \notin Absent THEN req.sourceAccount[1]
                 ELSE PublicKey(req.sourceSecret[1])
  IN
  /\ \A i \in CallsOf("getAccount") : log[i].arg = Some(account)
  /\ \A i \in 1..Len(log) :
       log[i].tx # NoTransaction =>
         /\ log[i].tx.source = account
         /\ log[i].tx.fee = 100
         /\ log[i].tx.timeout = 30
         /\ \A k \in 1..Len(log[i].tx.signatures) :
              log[i].tx.signatures[k] = PublicKey(req.sourceSecret[1])
  /\ transaction # NoTransaction =>
       /\ transaction.source = account
       /\ transaction.fee = 100
       /\ transaction.timeout = 30

\* built on the account GB, signed with the key of the secret SA
C28_Witness ==
  /\ req.sourceAccount = Some("GB")
  /\ CallsOf("sendTransaction") # {}
  /\ transaction.source = "GB"
  /\ transaction.signatures = <<PublicKey("SA")>>

(***************************************************************************)
(* C26: the timer that withTimeout arms for a remote call is released when *)
(* the race settles, whichever side wins: exactly one timer is armed while *)
(* a call is awaited and none while the invocation sleeps, has not started *)
(* or has ended, however many calls it made.                               *)
(***************************************************************************)
C26_NoTimerLeftArmed ==
  /\ timers = (IF inflight # NoCall THEN 1 ELSE 0)
  /\ pc \in {"idle", "sleep", "done"} => timers = 0

\* seven races won by the call, then one won by the timer
C26_Witness ==
  /\ pc = "done"
  /\ Len(results) = 8
  /\ outcome.kind = "thrown"
  /\ outcome.error.message.text = "Soroban ${label} timed out after ${timeout}ms"
  /\ timers = 0

\* parseEvents or parseScVal was called on its own and has returned
Called(fn) == input # None /\ input[1].fn = fn

(***************************************************************************)
(* C29: parseEvents returns, for every list of raw events, one event per   *)
(* raw event in the same order; its type is "unknown" when the raw type is *)
(* absent; its topics are undefined, not an empty list, when what the raw  *)
(* event gives as topics (topic, else topics) is not an array, and an      *)
(* empty array of raw topics gives an empty list.                          *)
(***************************************************************************)
C29_ParseEventsTotalOrdered ==
  Called("parseEvents") =>
    LET raw == input[1].arg
        events == output[1]
    IN
    /\ Len(events) = Len(raw)
    /\ \A i \in 1..Len(raw) :
         LET given == IF raw[i].topic \notin {None, Some(Text(""))}
                      THEN raw[i].topic ELSE raw[i].topics
             isArray == given # None /\ "array" \in DOMAIN given[1]
         IN
         /\ events[i].type = (IF raw[i].type \in Absent THEN "unknown"
                              ELSE raw[i].type[1])
         /\ events[i].contractId = raw[i].contractId
         /\ ~isArray => events[i].topics = None
         /\ isArray =>
              /\ events[i].topics # None
              /\ Len(events[i].topics[1]) = Len(given[1].array)
         /\ given = Some(Array(<<>>)) => events[i].topics = Some(<<>>)
         /\ raw[i].data = Some([scv |-> "scvU32", native |-> 7]) =>
              events[i].data = Some(7)

\* two events in the order given: the first without type and with a string
\* for topics, the second with an empty array of topics
C29_Witness ==
  /\ Called("parseEvents")
  /\ Len(input[1].arg) = 2
  /\ input[1].arg[1].type = None
  /\ input[1].arg[1].topic = Some(Text("x"))
  /\ input[1].arg[2].type = Some("contract")
  /\ input[1].arg[2].topic = Some(Array(<<>>))
  /\ output[1][1].type = "unknown"
  /\ output[1][1].topics = None
  /\ output[1][2].type = "contract"
  /\ output[1][2].topics = Some(<<>>)

(***************************************************************************)
(* C30: parseScVal of a string returns the decoded native value when the   *)
(* string is the base64 of an encoded value, and the string itself,        *)
(* unchanged, when it cannot be decoded.                                   *)
(***************************************************************************)
C30_TextDecodedOrReturned ==
  (/\ Called("parseScVal")
   /\ input[1].arg # None
   /\ "text" \in DOMAIN input[1].arg[1]) =>
    IF input[1].arg[1].text = "AAAAAwAAACo=" THEN output[1] = Some(42)
    ELSE IF input[1].arg[1].text = "AAAAAwAAAAc=" THEN output[1] = Some(7)
    ELSE output[1] = input[1].arg

\* what an invocation with the locals c holds when it runs alone: the
\* account, the signature, the budget of its deadline, its backoff and the
\* hash of its result are those of its own request and its own answers
Alone(c) ==
  LET budget == IF c.req.timeoutMs = None THEN apiTimeout
                ELSE c.req.timeoutMs[1]
  IN
  /\ c.transaction # NoTransaction =>
       /\ c.transaction.source = (IF c.req.sourceAccount = None THEN "GA"
                                  ELSE c.req.sourceAccount[1])
       /\ c.transaction.operation.contractId = c.req.contractId
  /\ \A k \in 1..Len(c.sleeps) :
       c.sleeps[k] = (IF 2000 * k < 8000 THEN 2000 * k ELSE 8000)
  /\ c.pc = "poll" => (Len(c.sleeps) = c.attempt /\ c.now < c.deadline)
  /\ c.pc = "sleep" => Len(c.sleeps) = c.attempt + 1
  /\ c.pc \in {"poll", "sleep"} =>
       /\ c.deadline >= budget
       /\ c.deadline <= c.now + budget
  /\ c.outcome.kind = "returned" =>
       /\ c.outcome.result.hash = c.sendResponse[1].hash
       /\ c.outcome.result.status = c.confirmed[1].status
  /\ c.timers = (IF c.inflight # NoCall THEN 1 ELSE 0)

(***************************************************************************)
(* C23: two invocations interleaved at every await share no mutable state: *)
(* a step of the running one leaves the locals of the suspended one as     *)
(* they are, an invocation that is resumed finds its locals (transaction,  *)
(* credential, deadline, attempt counter, ...) as it left them, and each   *)
(* holds at every moment what it holds when it runs alone.                 *)
(***************************************************************************)
C23_NoSharedState ==
  /\ [][cur' = cur => peer' = peer]_vars
  /\ [][cur' # cur => (Context' = peer /\ peer' = Context)]_vars
  /\ [](Alone(Context) /\ Alone(peer))

\* both have polled and slept, with different requests, deadlines and ends
C23_Witness ==
  /\ pc = "done"
  /\ peer.pc = "done"
  /\ req.timeoutMs = Some(CallerTimeoutMs)
  /\ peer.req.sourceAccount = Some("GB")
  /\ outcome.kind = "returned"
  /\ peer.outcome.kind = "thrown"
  /\ Len(sleeps) = 1
  /\ Len(peer.sleeps) = 1
  /\ deadline # peer.deadline
  /\ transaction.source # peer.transaction.source

\* the ledger value that the claim C31 assigns to a call argument
C31_Variant(param) ==
  IF param.kind = "ScVal" THEN param.scVal
  ELSE IF param.kind = "object" /\ param.scVal # NoScVal THEN param.scVal
  ELSE [scv |-> "scvU64", native |-> param.native]

\* the call argument is neither encoded, nor a wrapper, nor encodable
C31_NoEncoding(param) ==
  /\ param.kind # "ScVal"
  /\ ~(param.kind = "object" /\ param.scVal # NoScVal)
  /\ ~param.encodable

(***************************************************************************)
(* C31: each call argument becomes exactly one of: itself when it is an    *)
(* encoded ledger value, else the value it wraps under scVal, else its     *)
(* native encoding; and when some argument has no encoding, the invocation *)
(* that has fetched its account ends with a SorobanException bearing the   *)
(* encoder's message, no transaction having been built and no call other   *)
(* than getAccount having been issued.                                     *)
(***************************************************************************)
C31_ArgumentConversion ==
  /\ transaction # NoTransaction =>
       /\ \A i \in 1..Len(req.params) : ~C31_NoEncoding(req.params[i])
       /\ transaction.operation.args =
            [i \in 1..Len(req.params) |-> C31_Variant(req.params[i])]
  /\ (/\ results # <<>>
      /\ results[1] = "resolved"
      /\ \E i \in 1..Len(req.params) : C31_NoEncoding(req.params[i])) =>
       /\ pc = "done"
       /\ outcome.kind = "thrown"
       /\ outcome.error.class = "SorobanException"
       /\ outcome.error.message = Msg("failed to convert native value", "", 0)
       /\ transaction = NoTransaction
       /\ Len(log) = 1
       /\ log[1].op = "getAccount"

\* the three variants in one call
C31_Witness ==
  /\ Len(req.params) = 3
  /\ req.params[2].kind = "object"
  /\ req.params[2].encodable
  /\ transaction # NoTransaction
  /\ transaction.operation.args[1] = [scv |-> "scvU64", native |-> 100]
  /\ transaction.operation.args[2] = [scv |-> "scvI128", native |-> 5]
  /\ transaction.operation.args[3] = [scv |-> "scvU32", native |-> 9]

\* an argument without encoding ends the invocation after getAccount
C31_WitnessFailure ==
  /\ \E i \in 1..Len(req.params) : C31_NoEncoding(req.params[i])
  /\ results = <<"resolved">>
  /\ outcome.kind = "thrown"

(***************************************************************************)
(* C32: a ContractResult that invokeContract returns holds contract events *)
(* only when its success is true.                                          *)
(***************************************************************************)
C32_EventsOnlyOnSuccess ==
  outcome.kind = "returned" =>
    (outcome.result.events # <<>> => outcome.result.success)

(***************************************************************************)
(* C33: an invocation whose poller has been answered SUCCESS ends by       *)
(* returning a ContractResult with success true and the submitted hash; it *)
(* never ends with a thrown error.                                         *)
(***************************************************************************)
C33_ConfirmedSuccessIsReturned ==
  (/\ pc = "done"
   /\ confirmed # None
   /\ confirmed[1].status = Some("SUCCESS")) =>
    /\ outcome.kind = "returned"
    /\ outcome.result.success
    /\ outcome.result.hash = sendResponse[1].hash

\* the saves that closeSignal has made of the signal id
ClosingSaves(id) ==
  {i \in 1..Len(history) :
     /\ history[i].op = "save"
     /\ history[i].by = "closeSignal"
     /\ history[i].signal.id = id}

(***************************************************************************)
(* C34: for every signal at most one closeSignal call succeeds, so that    *)
(* the outcome and the closePrice which a closeSignal stored are not       *)
(* overwritten by another closeSignal, also when the reads and the saves   *)
(* of two calls interleave.                                                *)
(***************************************************************************)
C34_ClosedAtMostOnce ==
  \A id \in SignalIds : Cardinality(ClosingSaves(id)) <= 1

\* the prices of a request are numbers in the order that its type asks for,
\* an omitted stop-loss counting as 0
ConsistentlyOrdered(dto) ==
  LET entry == ParseFloat(dto.entryPrice)
      target == ParseFloat(dto.targetPrice)
      stop == IF dto.stopLossPrice \in {None, Some(<<>>)} THEN Num(0)
              ELSE ParseFloat(dto.stopLossPrice[1])
  IN /\ ~entry.nan /\ ~target.nan /\ ~stop.nan
     /\ IF dto.type = "BUY" THEN target.v > entry.v /\ stop.v < entry.v
        ELSE target.v < entry.v /\ stop.v > entry.v

(***************************************************************************)
(* C40: createSignal saves a signal exactly when the prices of the request *)
(* are consistently ordered; every other request ends with a               *)
(* BadRequestException and without a save; the signal saved for a request  *)
(* without stop-loss has stopLossPrice null, status ACTIVE and outcome     *)
(* PENDING.                                                                *)
(***************************************************************************)
C40_OnlyOrderedPricesSaved ==
  \A t \in Tasks :
    tasks[t].op = "createSignal" =>
      IF ConsistentlyOrdered(tasks[t].arg)
      THEN /\ tasks[t].out.kind = "returned"
           /\ \E i \in 1..Len(history) :
                /\ history[i].by = "createSignal"
                /\ history[i].signal = tasks[t].out.value
           /\ tasks[t].out.value.status = "ACTIVE"
           /\ tasks[t].out.value.outcome = "PENDING"
           /\ tasks[t].arg.stopLossPrice \in {None, Some(<<>>)} =>
                tasks[t].out.value.stopLossPrice = None
      ELSE /\ tasks[t].out.kind = "thrown"
           /\ tasks[t].out.error.class = "BadRequestException"
           /\ \A i \in 1..Len(history) : history[i].by # "createSignal"

\* the task t, running the handler op, takes a step
Steps(t, op) ==
  /\ tasks[t].op = op
  /\ tasks[t].pc \notin {"idle", "done"}
  /\ tasks'[t] # tasks[t]

(***************************************************************************)
(* C38: each save of handleValidation stores a signal whose outcome is     *)
(* PENDING and whose confidenceScore is not negative, whatever the         *)
(* validator answered; when the validator throws, the score saved is 0 and *)
(* the job throws the validator's error; when no signal has the id of the  *)
(* job, the job returns, the validator not having been called and nothing  *)
(* having been saved.                                                      *)
(***************************************************************************)
C38_ValidationSavesPending ==
  [][\A t \in Tasks :
       Steps(t, "handleValidation") =>
         /\ tasks[t].pc = "getSignal" =>
              /\ signals' = signals
              /\ IF tasks[t].loaded = None
                 THEN /\ tasks'[t].pc = "done"
                      /\ tasks'[t].out.kind = "returned"
                      /\ history' = history
                 ELSE /\ tasks'[t].pc = "validateSignal"
                      /\ history' = Append(history,
                                           [op |-> "validateSignal",
                                            by |-> "handleValidation"])
         /\ tasks[t].pc = "validateSignal" =>
              LET saved == signals'[tasks[t].arg.id] IN
              /\ tasks'[t].pc = "done"
              /\ saved # None
              /\ history' = Append(history, [op |-> "save",
                                             by |-> "handleValidation",
                                             signal |-> saved[1]])
              /\ saved[1].outcome = "PENDING"
              /\ saved[1].confidenceScore # None
              /\ saved[1].confidenceScore[1] >= 0
              /\ IF tasks[t].awaited[1].threw
                 THEN /\ saved[1].confidenceScore = Some(0)
                      /\ tasks'[t].out = Thrown(tasks[t].awaited[1].error)
                 ELSE tasks'[t].out.kind = "returned"]_vars

\* a job whose validator threw has saved the score 0, and a job whose
\* validator gave a negative score has saved 0 as well
C38_Witness ==
  /\ \E t \in Tasks :
       /\ tasks[t].op = "handleValidation"
       /\ tasks[t].pc = "done"
       /\ tasks[t].out.kind = "thrown"
  /\ \E i \in 1..Len(history) :
       /\ history[i].op = "save"
       /\ history[i].by = "handleValidation"
       /\ history[i].signal.confidenceScore = Some(0)
       /\ history[i].signal.outcome = "PENDING"

(***************************************************************************)
(* C39: checkSignalOutcome gives, in this order of precedence: the stored  *)
(* outcome and shouldClose false for a signal that is not ACTIVE; EXPIRED  *)
(* and shouldClose true, without a price query, for one that has expired;  *)
(* PENDING and false when no price is available; TARGET_HIT and true when  *)
(* the target is hit, the stop-loss being hit or not; STOP_LOSS_HIT and    *)
(* true when the stop-loss is hit; PENDING and false otherwise.  No step   *)
(* of it changes a stored signal.                                          *)
(***************************************************************************)
C39_OutcomePrecedence ==
  [][\A t \in Tasks :
       Steps(t, "checkSignalOutcome") =>
         /\ signals' = signals
         /\ (tasks[t].pc = "getSignal" /\ tasks[t].loaded # None) =>
              LET signal == tasks[t].loaded[1] IN
              IF signal.status # "ACTIVE"
              THEN /\ tasks'[t].pc = "done"
                   /\ tasks'[t].out =
                        Returned([signal |-> signal, outcome |-> signal.outcome,
                                  shouldClose |-> FALSE])
                   /\ history' = history
              ELSE IF clock > signal.expiresAt
              THEN /\ tasks'[t].pc = "done"
                   /\ tasks'[t].out =
                        Returned([signal |-> signal, outcome |-> "EXPIRED",
                                  shouldClose |-> TRUE])
                   /\ history' = history
              ELSE /\ tasks'[t].pc = "getPrice"
                   /\ history' = Append(history,
                                        [op |-> "getPrice",
                                         by |-> "checkSignalOutcome"])
         /\ tasks[t].pc = "getPrice" =>
              LET signal == tasks[t].loaded[1]
                  price == tasks[t].awaited[1]
                  decided ==
                    IF ~price.available THEN "PENDING"
                    ELSE IF price.targetHit THEN "TARGET_HIT"
                    ELSE IF signal.stopLossPrice # None /\ price.stopLossHit
                    THEN "STOP_LOSS_HIT"
                    ELSE "PENDING"
              IN /\ tasks'[t].pc = "done"
                 /\ tasks'[t].out =
                      Returned([signal |-> signal, outcome |-> decided,
                                shouldClose |-> decided # "PENDING"])
                 /\ history' = history]_vars

\* a stop-loss was hit by a price that did not hit the target
C39_Witness ==
  \E t \in Tasks :
    /\ tasks[t].op = "checkSignalOutcome"
    /\ tasks[t].pc = "done"
    /\ tasks[t].out.kind = "returned"
    /\ tasks[t].out.value.outcome = "STOP_LOSS_HIT"
    /\ tasks[t].out.value.shouldClose
    /\ tasks[t].out.value.signal.status = "ACTIVE"

(***************************************************************************)
(* C35: the asset repository never holds two rows with the same code and   *)
(* the same issuer (no issuer being one value), also when the findOne and  *)
(* the save of several createAsset calls interleave.                       *)
(***************************************************************************)
C35_NoDuplicateAssets ==
  \A i, j \in 1..Len(assets) :
    (assets[i].code = assets[j].code /\ assets[i].issuer = assets[j].issuer)
      => i = j

(***************************************************************************)
(* C36: every asset that createAsset saves with type NATIVE has the code   *)
(* 'XLM', and every asset it saves with another code has type ISSUED and   *)
(* an issuer that is not empty.                                            *)
(***************************************************************************)
C36_NativeIsXLM ==
  \A i \in 1..Len(history) :
    (history[i].op = "save" /\ history[i].by = "createAsset") =>
      /\ history[i].asset.type = "NATIVE" => history[i].asset.code = XLM
      /\ history[i].asset.code # XLM =>
           /\ history[i].asset.type = "ISSUED"
           /\ history[i].asset.issuer \notin {None, Some("")}

\* the calls of fetchPriceFromHorizon made so far
Fetches == {i \in 1..Len(history) : history[i].op = "fetchPriceFromHorizon"}

(***************************************************************************)
(* C37: getAssetPrice reads the cache under the key of its pair; when an   *)
(* entry is held it returns that entry and does not call                   *)
(* fetchPriceFromHorizon; otherwise it calls it once, and stores what was  *)
(* fetched, under the key of the pair and no other, only when it is not    *)
(* null; a fetch that fails or finds an empty order book makes it return   *)
(* null, the cache being left as it is; it never throws; clearPriceCache   *)
(* leaves no entry under the key of its pair, so that a getAssetPrice      *)
(* which reads the cache after it fetches again.                           *)
(***************************************************************************)
C37_CacheBeforeFetch ==
  [][\A t \in Tasks :
       /\ (tasks'[t] # tasks[t] /\ tasks'[t].pc = "get") =>
            /\ tasks'[t].loaded = cache[CacheKey(tasks'[t].arg.pair)]
            /\ cache' = cache
            /\ history' = history
       /\ (tasks'[t] # tasks[t] /\ tasks'[t].op = "clearPriceCache") =>
            cache' = [cache EXCEPT ![CacheKey(tasks'[t].arg.pair)] = None]
       /\ Steps(t, "getAssetPrice") =>
            /\ tasks'[t].out.kind # "thrown"
            /\ tasks[t].pc = "get" =>
                 /\ cache' = cache
                 /\ IF tasks[t].loaded # None
                    THEN /\ tasks'[t].pc = "done"
                         /\ tasks'[t].out = Returned(tasks[t].loaded)
                         /\ history' = history
                    ELSE /\ Len(history') = Len(history) + 1
                         /\ history'[Len(history')].op = "fetchPriceFromHorizon"
                         /\ history'[Len(history')].pair = tasks[t].arg.pair
                         /\ tasks'[t].pc = "done" =>
                              tasks'[t].out = Returned(None)
            /\ tasks[t].pc = "axios.get" =>
                 /\ tasks'[t].pc = "done"
                 /\ history' = history
                 /\ LET book == tasks[t].awaited[1] IN
                    IF book.failed \/ book.asks = <<>> \/ book.bids = <<>>
                    THEN /\ tasks'[t].out = Returned(None)
                         /\ cache' = cache
                    ELSE /\ tasks'[t].out.value # None
                         /\ tasks'[t].out.value[1].pair = tasks[t].arg.pair
                         /\ cache' =
                              [cache EXCEPT
                                 ![CacheKey(tasks[t].arg.pair)] =
                                   tasks'[t].out.value]]_vars

\* two calls have returned a price and the order book was fetched once
C37_Witness ==
  /\ \A t \in Tasks :
       /\ tasks[t].op = "getAssetPrice"
       /\ tasks[t].pc = "done"
       /\ tasks[t].out.value # None
  /\ Cardinality(Fetches) = 1

====
